---- MODULE Spec2Model ----
(***************************************************************************)
(* A model of lib/preprocessor.cpp: the configuration enumerator           *)
(* (Preprocessor::getcfgs), the conditional evaluator                      *)
(* (Preprocessor::getcode) and the macro expander                          *)
(* (Preprocessor::expandMacros).  std::string is modelled by TLA+ strings  *)
(* (Len, SubSeq and \o act on them), positions are 0-based as in the code. *)
(***************************************************************************)
EXTENDS Integers, Sequences, FiniteSets, TLC

VARIABLES
    \* ---- Preprocessor::getcfgs ----
    gpc,            \* position of getcfgs: "idle", "loop", "done"
    gret,           \* std::list<std::string> ret
    deflist,        \* std::list<std::string> deflist
    ndeflist,       \* std::list<std::string> ndeflist
    defines,        \* std::set<std::string> defines
    filelevel,      \* int filelevel
    includeguard,   \* bool includeguard
    glinenr,        \* unsigned int linenr
    gerrors,        \* number of errors handed to _errorLogger->reportErr
    gdropped,       \* number of unhandled configurations removed from ret
    gopen,          \* history: for every open conditional block its guard and branch
    gexpect,        \* history: the configurations the #ifdef lines read so far call for
    gelse           \* history: an #ifdef line was read inside an #else branch

gvars == <<gpc, gret, deflist, ndeflist, defines, filelevel, includeguard,
           glinenr, gerrors, gdropped, gopen, gexpect, gelse>>

VARIABLES
    \* ---- Settings and ErrorLogger ----
    userDefines,    \* _settings->userDefines
    userUndefs,     \* _settings->userUndefs
    errors,         \* the messages handed to _errorLogger->reportErr, in order
    \* ---- Preprocessor::getcode ----
    cpc,            \* position of getcode: "idle", "loop", "asm", "expand", "done"
    cfgmap,         \* std::map<std::string, std::string> cfgmap
    matching_ifdef, \* std::list<bool> matching_ifdef
    matched_ifdef,  \* std::list<bool> matched_ifdef
    cmatch,         \* bool match
    lineno,         \* unsigned int lineno
    filenames,      \* std::stack<std::string> filenames
    lineNumbers,    \* std::stack<unsigned int> lineNumbers
    cret,           \* std::ostringstream ret
    result,         \* the string getcode returns
    \* ---- history of getcode ----
    nlines,         \* number of lines getline has delivered
    srcline,        \* location of the line read last: its file and its line in that file
    srcstack,       \* the line numbers of the #file lines that are open
    last,           \* the line read last, the macro map and the stack depth before it
    chains,         \* for every open conditional: branches selected, #else seen
    stray,          \* a #elif, #else or #endif was read while no conditional was open
    \* ---- Preprocessor::expandMacros ----
    eistr,          \* std::istringstream istr: the characters not read yet
    egood,          \* istr.good()
    emacros,        \* std::map<std::string, PreprocessorMacro *> macros, by macro text
    elinenr,        \* unsigned int linenr
    efilename,      \* std::string filename
    efileinfo,      \* std::stack< std::pair<unsigned int, std::string> > fileinfo
    eostr,          \* std::ostringstream ostr
    \* ---- history of expandMacros ----
    eptr,           \* for every name in macros the record its pointer refers to
    eheap,          \* for every record made by new PreprocessorMacro: why it was deleted
    elast           \* the text expanded last, the macros before it and what came of it

cvars == <<userDefines, userUndefs, errors, cpc, cfgmap, matching_ifdef, matched_ifdef,
           cmatch, lineno, filenames, lineNumbers, cret, result,
           nlines, srcline, srcstack, last, chains, stray>>

evars == <<eistr, egood, emacros, elinenr, efilename, efileinfo, eostr,
           eptr, eheap, elast>>

VARIABLES
    \* ---- Preprocessor::read, the loop over the characters of istr ----
    rpc,            \* position of read: "idle", "loop", "done" (the loop is left)
    gnuc,           \* the build defines __GNUC__
    rinput,         \* history: the characters of the file
    rin,            \* std::istream istr: the characters not read yet
    rgood,          \* istr.good()
    rch,            \* unsigned char ch
    rcode,          \* std::ostringstream code
    rnewlines       \* unsigned int newlines

rvars == <<rpc, gnuc, rinput, rin, rgood, rch, rcode, rnewlines>>

VARIABLES
    \* ---- Preprocessor::removeComments ----
    mpc,            \* position of removeComments: "idle", "loop", "done"
    mstr,           \* const std::string &str
    msettings,      \* _settings: is there one, _inlineSuppressions, userDefines, style
    mi,             \* std::string::size_type i
    mlineno,        \* unsigned int lineno
    mnewlines,      \* unsigned int newlines
    mcode,          \* std::ostringstream code
    mprevious,      \* unsigned char previous
    inPreprocessorLine, \* bool inPreprocessorLine
    suppressionIDs, \* std::vector<std::string> suppressionIDs
    fallThroughComment, \* bool fallThroughComment
    madded          \* the calls of _settings->nomsg.addSuppression, in order

mvars == <<mpc, mstr, msettings, mi, mlineno, mnewlines, mcode, mprevious,
           inPreprocessorLine, suppressionIDs, fallThroughComment, madded>>

VARIABLES
    \* ---- the files and the settings handleIncludes works with ----
    disk,           \* the header files that can be opened: their path and their text
    includePaths,   \* const std::list<std::string> &includePaths
    isettings,      \* _settings: is there one, debugwarnings, nomsg, checkConfiguration
    missingIncludeFlag, \* static bool Preprocessor::missingIncludeFlag
    ierrors,        \* the messages handed to _errorLogger->reportErr, in order
    \* ---- Preprocessor::handleIncludes(code, filePath, includePaths, defs, includes) ----
    ipc,            \* position of handleIncludes: "idle", "run", "done"
    idefs,          \* std::map<std::string,std::string> &defs
    istack,         \* the calls of handleIncludes that are open, the outermost first
    inlines,        \* history: number of lines of the source file read so far
    iresult,        \* the string the outermost call returns
    \* ---- Preprocessor::handleIncludes(code, filePath, includePaths) ----
    icode,          \* std::string &code; in user-define mode the lines read so far
    ipos,           \* std::string::size_type pos
    iendfilePos,    \* std::string::size_type endfilePos
    ipaths,         \* std::list<std::string> paths
    handledFiles,   \* std::set<std::string> handledFiles
    \* ---- history of both ----
    ilast           \* the #include handled last: its lookup and what came of it

ivars == <<disk, includePaths, isettings, missingIncludeFlag, ierrors,
           ipc, idefs, istack, inlines, iresult,
           icode, ipos, iendfilePos, ipaths, handledFiles, ilast>>

vars == <<gvars, cvars, evars, rvars, mvars, ivars>>

-----------------------------------------------------------------------------
(* Bounds of the model *)

\* number of input lines getcfgs reads from the general menu
MaxCfgLines == 4
\* number of input lines getcfgs reads from the #ifdef/#else/#endif menu
MaxIfdefLines == 7
\* number of input lines getcfgs reads from the menu of "&&" conditions
MaxAndLines == 4
\* number of input lines getcfgs reads from a text with spliced headers
MaxGuardLines == 6
\* number of input lines getcode reads from the menu of conditional directives
MaxCodeLines == 4
\* number of input lines getcode reads from the menu of #error, #file and asm lines
MaxErrorLines == 4
\* number of input lines getcode reads from the menu of negated #elif lines
MaxElifLines == 3
\* number of input lines getcode reads from the menu of macro definitions and uses
MaxTextLines == 4
\* lines read by getcode when its text defines macros that name each other
MaxMacroLines == 3
\* lines read by getcode when its statements call several macros
MaxLimitLines == 3
\* expansions of macros that the scan of one piece of text may take
MaxExpansions == 12
\* number of pieces of a text handed to removeComments
MaxPieces == 3
\* number of characters of a file that read is given
MaxReadLen == 4
\* number of lines of the source file that handleIncludes reads
MaxIncludeLines == 3
\* number of calls of handleIncludes that may be open at a time
MaxIncludeDepth == 4
\* number of lines of the source file whose #include clauses are replaced
MaxEnumLines == 3
\* lines read by handleIncludes from a source file with blocks for a name
\* that the user has undefined
MaxUndefLines == 5

-----------------------------------------------------------------------------
(* std::string *)

NPOS == -1

Min(a, b) == IF a < b THEN a ELSE b

\* s[i], 0-based; s[s.length()] is the terminating NUL, written ""
At(s, i) == IF i >= 0 /\ i < Len(s) THEN SubSeq(s, i + 1, i + 1) ELSE ""

\* s.substr(pos, n)
Substr(s, pos, n) == SubSeq(s, pos + 1, Min(pos + n, Len(s)))

\* s.substr(pos)
SubstrFrom(s, pos) == SubSeq(s, pos + 1, Len(s))

\* s.erase(pos, n)
Erase(s, pos, n) == SubSeq(s, 1, pos) \o SubSeq(s, Min(pos + n, Len(s)) + 1, Len(s))

\* line.compare(0, n, prefix) == 0
Compare(line, n, prefix) == SubSeq(line, 1, Min(n, Len(line))) = prefix

RECURSIVE Find(_, _, _)
\* s.find(sub, from)
Find(s, sub, from) ==
    IF from + Len(sub) > Len(s) THEN NPOS
    ELSE IF Substr(s, from, Len(sub)) = sub THEN from
    ELSE Find(s, sub, from + 1)

\* the characters of the 7-bit set the model uses, in ASCII order
AsciiOrder == "\n !\"#$%&'()*+,-./0123456789:;<=>?@ABCDEFGHIJKLMNOPQRSTUVWXYZ[\\]^_abcdefghijklmnopqrstuvwxyz{|}~"

Chars == {SubSeq(AsciiOrder, i, i) : i \in 1..Len(AsciiOrder)}

Ord == [c \in Chars |-> CHOOSE i \in 1..Len(AsciiOrder) : SubSeq(AsciiOrder, i, i) = c]

Digits == {"0", "1", "2", "3", "4", "5", "6", "7", "8", "9"}

Alphas == {c \in Chars : \/ (Ord[c] >= Ord["A"] /\ Ord[c] <= Ord["Z"])
                          \/ (Ord[c] >= Ord["a"] /\ Ord[c] <= Ord["z"])}

\* std::isdigit, std::isalpha, std::isalnum
IsDigit(c) == c \in Digits
IsAlpha(c) == c \in Alphas
IsAlnum(c) == c \in Alphas \cup Digits

RECURSIVE StrLess(_, _)
\* operator< of std::string
StrLess(a, b) ==
    IF b = "" THEN FALSE
    ELSE IF a = "" THEN TRUE
    ELSE IF At(a, 0) = At(b, 0) THEN StrLess(SubstrFrom(a, 1), SubstrFrom(b, 1))
    ELSE Ord[At(a, 0)] < Ord[At(b, 0)]

\* the least string of a non-empty set
MinStr(S) == CHOOSE m \in S : \A o \in S : o = m \/ StrLess(m, o)

RECURSIVE SetToSeq(_)
\* the elements of a std::set<std::string> in iteration order
SetToSeq(S) == IF S = {} THEN <<>> ELSE <<MinStr(S)>> \o SetToSeq(S \ {MinStr(S)})

Last(q) == q[Len(q)]
Front(q) == SubSeq(q, 1, Len(q) - 1)
SetLast(q, v) == [q EXCEPT ![Len(q)] = v]
Range(q) == {q[i] : i \in 1..Len(q)}

-----------------------------------------------------------------------------
(* join, unify *)

RECURSIVE JoinSeq(_, _)
JoinSeq(q, separator) ==
    IF q = <<>> THEN ""
    ELSE IF Len(q) = 1 THEN q[1]
    ELSE q[1] \o separator \o JoinSeq(Tail(q), separator)

\* static std::string join(const std::set<std::string>&, char)
join(list, separator) == JoinSeq(SetToSeq(list), separator)

RECURSIVE UnifyParts(_, _, _, _, _)
\* the loop of unify: the set of parts of s
UnifyParts(s, separator, pos, prevPos, parts) ==
    IF pos < Len(s)
    THEN IF At(s, pos) = separator
         THEN UnifyParts(s, separator, pos + 1, pos + 1,
                         IF pos > prevPos
                         THEN parts \cup {Substr(s, prevPos, pos - prevPos)}
                         ELSE parts)
         ELSE UnifyParts(s, separator, pos + 1, prevPos, parts)
    ELSE IF prevPos < Len(s) THEN parts \cup {SubstrFrom(s, prevPos)} ELSE parts

\* static std::string unify(const std::string &s, char separator)
unify(s, separator) == join(UnifyParts(s, separator, 0, 0, {}), separator)

-----------------------------------------------------------------------------
(* The tokenizer (lib/tokenize.cpp, lib/token.cpp): only what the           *)
(* preprocessor asks of it on one-line conditions.                          *)

IsIdentChar(c) == IsAlnum(c) \/ c = "_"

RECURSIVE WordEnd(_, _)
\* the position after the run of identifier characters that starts at pos
WordEnd(s, pos) == IF pos < Len(s) /\ IsIdentChar(At(s, pos)) THEN WordEnd(s, pos + 1) ELSE pos

TwoCharTokens == {"&&", "||", "==", "!=", "<=", ">=", "##"}

RECURSIVE TokScan(_, _)
TokScan(s, pos) ==
    IF pos >= Len(s) THEN <<>>
    ELSE IF At(s, pos) = " " THEN TokScan(s, pos + 1)
    ELSE IF IsIdentChar(At(s, pos))
         THEN <<Substr(s, pos, WordEnd(s, pos) - pos)>> \o TokScan(s, WordEnd(s, pos))
    ELSE IF Substr(s, pos, 2) \in TwoCharTokens
         THEN <<Substr(s, pos, 2)>> \o TokScan(s, pos + 2)
    ELSE IF At(s, pos) = "#" /\ IsIdentChar(At(s, pos + 1))
         THEN <<Substr(s, pos, WordEnd(s, pos + 1) - pos)>> \o TokScan(s, WordEnd(s, pos + 1))
    ELSE IF At(s, pos) = "\"" /\ Find(s, "\"", pos + 1) # NPOS
         THEN <<Substr(s, pos, Find(s, "\"", pos + 1) + 1 - pos)>>
              \o TokScan(s, Find(s, "\"", pos + 1) + 1)
    ELSE <<At(s, pos)>> \o TokScan(s, pos + 1)

\* Tokenizer::tokenize / createTokens: the token list of a one-line text
Tokens(s) == TokScan(s, 0)

\* Token::isName, the %var% of Token::Match
IsName(tok) == tok # "" /\ (IsAlpha(At(tok, 0)) \/ At(tok, 0) = "_")

\* Token::isNumber, the %num% of Token::Match
IsNum(tok) == tok # "" /\ IsDigit(At(tok, 0))

\* the token at index i (1-based), "" past either end
Tok(toks, i) == IF i >= 1 /\ i <= Len(toks) THEN toks[i] ELSE ""

\* toks with the tokens i..j replaced by the sequence by
Splice(toks, i, j, by) == SubSeq(toks, 1, i - 1) \o by \o SubSeq(toks, j + 1, Len(toks))

RECURSIVE FoldComparisons(_, _)
\* Tokenizer::simplifyCalculations on conditions: a comparison of two numbers
\* becomes its value
FoldComparisons(toks, i) ==
    IF i + 2 > Len(toks) THEN toks
    ELSE IF IsNum(toks[i]) /\ toks[i + 1] \in {"==", "!="} /\ IsNum(toks[i + 2])
         THEN FoldComparisons(
                  Splice(toks, i, i + 2,
                         <<IF (toks[i] = toks[i + 2]) = (toks[i + 1] = "==") THEN "1" ELSE "0">>),
                  i)
    ELSE FoldComparisons(toks, i + 1)

simplifyCalculations(toks) == FoldComparisons(toks, 1)

RECURSIVE DropInnerParens(_, _)
\* Tokenizer::simplifyRedundantParenthesis on conditions: "( ( x ) )" => "( x )"
DropInnerParens(toks, i) ==
    IF i + 4 > Len(toks) THEN toks
    ELSE IF /\ toks[i] = "(" /\ toks[i + 1] = "("
            /\ toks[i + 3] = ")" /\ toks[i + 4] = ")"
            /\ (IsNum(toks[i + 2]) \/ IsName(toks[i + 2]))
         THEN DropInnerParens(Splice(toks, i + 1, i + 3, <<toks[i + 2]>>), i)
    ELSE DropInnerParens(toks, i + 1)

simplifyRedundantParenthesis(toks) == DropInnerParens(toks, 1)

-----------------------------------------------------------------------------
(* Preprocessor::simplifyCondition, Preprocessor::match_cfg_def *)

BoolOpen == {"&&", "||", "("}
BoolClose == {"&&", "||", ")"}

RECURSIVE ReplaceNames(_, _, _, _)
\* "replace variable names with values..": the loop over the tokens from i on
ReplaceNames(toks, i, cfg, match) ==
    IF i > Len(toks) THEN toks
    ELSE IF ~IsName(toks[i]) THEN ReplaceNames(toks, i + 1, cfg, match)
    ELSE IF /\ toks[i] = "defined" /\ Tok(toks, i + 1) = "("
            /\ IsName(Tok(toks, i + 2)) /\ Tok(toks, i + 3) = ")"
         THEN IF toks[i + 2] \in DOMAIN cfg
              THEN ReplaceNames(Splice(toks, i, i + 3, <<"1">>), i + 1, cfg, match)
              ELSE IF match
              THEN ReplaceNames(Splice(toks, i, i + 3, <<"0">>), i + 1, cfg, match)
              ELSE ReplaceNames(toks, i + 1, cfg, match)
    ELSE IF toks[i] = "defined" /\ IsName(Tok(toks, i + 1))
         THEN IF toks[i + 1] \in DOMAIN cfg
              THEN ReplaceNames(Splice(toks, i, i + 1, <<"1">>), i + 1, cfg, match)
              ELSE IF match
              THEN ReplaceNames(Splice(toks, i, i + 1, <<"0">>), i + 1, cfg, match)
              ELSE ReplaceNames(toks, i + 1, cfg, match)
    ELSE IF toks[i] \in DOMAIN cfg
         THEN IF cfg[toks[i]] # ""
              THEN \* the value's tokens take the place of the name
                   ReplaceNames(Splice(toks, i, i, Tokens(cfg[toks[i]])),
                                i + Len(Tokens(cfg[toks[i]])), cfg, match)
              ELSE IF /\ (i = 1 \/ toks[i - 1] \in BoolOpen)
                      /\ (i = Len(toks) \/ toks[i + 1] \in BoolClose)
              THEN ReplaceNames(Splice(toks, i, i, <<"1">>), i + 1, cfg, match)
              ELSE \* tok->deleteThis(): the next token moves here and is stepped over
                   ReplaceNames(Splice(toks, i, i, <<>>), i + 1, cfg, match)
    ELSE ReplaceNames(toks, i + 1, cfg, match)

RECURSIVE NotNum(_, _)
\* "! %num%" => the negated number
NotNum(toks, i) ==
    IF i + 1 > Len(toks) THEN toks
    ELSE IF toks[i] = "!" /\ IsNum(toks[i + 1])
         THEN NotNum(Splice(toks, i, i + 1, <<IF toks[i + 1] = "0" THEN "1" ELSE "0">>), i + 1)
    ELSE NotNum(toks, i + 1)

RECURSIVE SimplifyLoop(_)
\* "simplify calculations..": while (modified)
SimplifyLoop(toks) ==
    LET t1 == NotNum(simplifyRedundantParenthesis(simplifyCalculations(toks)), 1)
    IN  IF t1 = toks THEN toks ELSE SimplifyLoop(t1)

RECURSIVE NumToOne(_, _)
\* "(|%oror%|&& %num% &&|%oror%|)": a number other than 0 becomes 1
NumToOne(toks, i) ==
    IF i + 2 > Len(toks) THEN toks
    ELSE IF /\ toks[i] \in BoolOpen /\ IsNum(toks[i + 1]) /\ toks[i + 2] \in BoolClose
            /\ toks[i + 1] # "0"
         THEN NumToOne([toks EXCEPT ![i + 1] = "1"], i + 1)
    ELSE NumToOne(toks, i + 1)

RECURSIVE OrOne(_, _)
\* "(|%oror% %any% %oror% 1": drop the left operand of "|| 1"
OrOne(toks, i) ==
    IF i > Len(toks) THEN toks
    ELSE IF /\ toks[i] \in {"(", "||"} /\ Tok(toks, i + 1) # ""
            /\ Tok(toks, i + 2) = "||" /\ Tok(toks, i + 3) = "1"
         THEN OrOne(Splice(toks, i + 1, i + 2, <<>>), IF i > 3 THEN i - 3 ELSE i)
    ELSE OrOne(toks, i + 1)

\* the condition after simplifyCondition(cfg, condition, match)
simplifyCondition(cfg, condition, match) ==
    LET toks == Tokens("(" \o condition \o ")")
    IN  IF Len(toks) = 3 /\ toks[1] = "(" /\ IsName(toks[2]) /\ toks[3] = ")"
        THEN IF toks[2] \in DOMAIN cfg
             THEN (IF cfg[toks[2]] = "0" THEN "0" ELSE "1")
             ELSE IF match THEN "0" ELSE condition
        ELSE IF /\ Len(toks) = 4 /\ toks[1] = "(" /\ toks[2] = "!"
                /\ IsName(toks[3]) /\ toks[4] = ")"
        THEN IF toks[3] \notin DOMAIN cfg THEN "1"
             ELSE IF cfg[toks[3]] = "0" THEN "1"
             ELSE IF match THEN "0" ELSE condition
        ELSE LET t1 == ReplaceNames(toks, 1, cfg, match)
                 t2 == SimplifyLoop(t1)
                 t3 == OrOne(NumToOne(t2, 1), 1)
             IN  IF \/ SubSeq(t3, 1, 3) = <<"(", "1", ")">>
                    \/ SubSeq(t3, 1, 3) = <<"(", "1", "||">>
                 THEN "1"
                 ELSE IF SubSeq(t3, 1, 3) = <<"(", "0", ")">> THEN "0"
                 ELSE condition

\* bool Preprocessor::match_cfg_def(cfg, def)
match_cfg_def(cfg, def) ==
    LET d == simplifyCondition(cfg, def, TRUE)
    IN  IF d \in DOMAIN cfg THEN TRUE
        ELSE IF d = "0" THEN FALSE
        ELSE IF d = "1" THEN TRUE
        ELSE FALSE

-----------------------------------------------------------------------------
(* Preprocessor::getdef *)

RECURSIVE RemoveSpaces(_, _)
\* "Remove all spaces.": a space stays only between two identifier characters
RemoveSpaces(line, from) ==
    LET pos == Find(line, " ", from)
    IN  IF pos = NPOS THEN line
        ELSE IF IsIdentChar(At(line, pos - 1)) /\ IsIdentChar(At(line, pos + 1))
             THEN RemoveSpaces(line, pos + 1)
             ELSE RemoveSpaces(Erase(line, pos, 1), pos)

\* std::string Preprocessor::getdef(std::string line, bool def)
getdef(line, def) ==
    IF line = "" \/ At(line, 0) # "#" THEN ""
    ELSE IF /\ def
            /\ ~Compare(line, 7, "#ifdef ")
            /\ ~Compare(line, 4, "#if ")
            /\ (~Compare(line, 6, "#elif ") \/ Compare(line, 7, "#elif !"))
         THEN ""
    ELSE IF ~def /\ ~Compare(line, 8, "#ifndef ") /\ ~Compare(line, 7, "#elif !")
         THEN ""
    ELSE LET l1 == IF Compare(line, 12, "#if defined ") THEN Erase(line, 0, 11)
                   ELSE IF Compare(line, 15, "#elif !defined(")
                   THEN LET l2 == Erase(line, 0, 15)
                        IN  IF Find(l2, ")", 0) # NPOS
                            THEN Erase(l2, Find(l2, ")", 0), 1)
                            ELSE l2
                   ELSE IF Find(line, " ", 0) = NPOS THEN ""
                   ELSE Erase(line, 0, Find(line, " ", 0))
         IN  RemoveSpaces(l1, 0)

-----------------------------------------------------------------------------
(* Preprocessor::getcfgs: the loop over the lines *)

RECURSIVE ValidDefineName(_, _)
\* the "valid" loop of a #define line, from pos on
ValidDefineName(line, pos) ==
    IF pos < Len(line) /\ At(line, pos) # " "
    THEN IF \/ At(line, pos) = "_"
            \/ IsAlpha(At(line, pos))
            \/ (pos > 8 /\ IsDigit(At(line, pos)))
         THEN ValidDefineName(line, pos + 1)
         ELSE FALSE
    ELSE TRUE

\* what a valid "#define " line inserts into defines
DefineEntry(line) ==
    IF Find(line, " ", 8) = NPOS THEN SubstrFrom(line, 8)
    ELSE LET s == SubstrFrom(line, 8)
         IN  Substr(s, 0, Find(s, " ", 0)) \o "=" \o SubstrFrom(s, Find(s, " ", 0) + 1)

RECURSIVE ParLevel(_, _, _)
\* the parenthesis count of def; the scan stops when it drops below 0
ParLevel(def, pos, par) ==
    IF pos >= Len(def) \/ par < 0 THEN par
    ELSE IF At(def, pos) = "(" THEN ParLevel(def, pos + 1, par + 1)
    ELSE IF At(def, pos) = ")" THEN ParLevel(def, pos + 1, par - 1)
    ELSE ParLevel(def, pos + 1, par)

RECURSIVE VarMapOf(_)
\* "Replace defined constants": the NAME=VALUE entries of defines as a map
VarMapOf(entries) ==
    IF entries = <<>> THEN <<>>
    ELSE LET rest == VarMapOf(Front(entries))
             e == Last(entries)
             pos == Find(e, "=", 0)
         IN  IF pos = NPOS THEN rest
             ELSE [n \in DOMAIN rest \cup {Substr(e, 0, pos)} |->
                      IF n = Substr(e, 0, pos) THEN SubstrFrom(e, pos + 1) ELSE rest[n]]

RECURSIVE BuildDef_NoSkip(_, _, _)
\* BuildDef without the special entries "0", "1" and "!"
BuildDef_NoSkip(dl, i, def) ==
    IF i > Len(dl) THEN def
    ELSE IF def # dl[i]
         THEN BuildDef_NoSkip(dl, i + 1, (IF def # "" THEN def \o ";" ELSE "") \o dl[i])
    ELSE BuildDef_NoSkip(dl, i + 1, def)

RECURSIVE BuildDef(_, _, _)
\* the configuration of the guards that are open, deflist[i..] appended to def
BuildDef(dl, i, def) ==
    IF i > Len(dl) THEN def
    ELSE IF dl[i] = "0" THEN def
    ELSE IF dl[i] = "1" \/ dl[i] = "!" THEN BuildDef(dl, i + 1, def)
    ELSE IF def # dl[i]
         THEN BuildDef(dl, i + 1, (IF def # "" THEN def \o ";" ELSE "") \o dl[i])
    ELSE BuildDef(dl, i + 1, def)

\* the history variables: the blocks that are open and the configurations called for
HistoryStep(line) ==
    IF Compare(line, 7, "#ifdef ")
    THEN LET g == gopen \o <<[id |-> SubstrFrom(line, 7), inElse |-> FALSE]>>
             ids == {g[i].id : i \in {j \in 1..Len(g) : ~g[j].inElse}}
         IN  /\ gopen' = g
             /\ gexpect' = gexpect \cup {JoinSeq(SetToSeq(ids), ";")}
             /\ gelse' = (gelse \/ \E i \in 1..Len(gopen) : gopen[i].inElse)
    ELSE IF line = "#else" /\ gopen # <<>>
    THEN /\ gopen' = SetLast(gopen, [id |-> Last(gopen).id, inElse |-> TRUE])
         /\ UNCHANGED <<gexpect, gelse>>
    ELSE IF line = "#endif" /\ gopen # <<>>
    THEN /\ gopen' = Front(gopen)
         /\ UNCHANGED <<gexpect, gelse>>
    ELSE UNCHANGED <<gopen, gexpect, gelse>>

\* one turn of "while (getline(istr, line))"
getcfgsTurn(line0) ==
    /\ glinenr' = glinenr + 1
    /\ UNCHANGED gdropped
    /\ IF line0 = ""
       THEN UNCHANGED <<gpc, gret, deflist, ndeflist, defines, filelevel, includeguard, gerrors>>
       ELSE IF Compare(line0, 6, "#file ")
       THEN /\ includeguard' = TRUE
            /\ filelevel' = filelevel + 1
            /\ UNCHANGED <<gpc, gret, deflist, ndeflist, defines, gerrors>>
       ELSE IF line0 = "#endfile"
       THEN /\ includeguard' = FALSE
            /\ filelevel' = IF filelevel > 0 THEN filelevel - 1 ELSE filelevel
            /\ UNCHANGED <<gpc, gret, deflist, ndeflist, defines, gerrors>>
       ELSE
         LET isDefine == Compare(line0, 8, "#define ")
             valid == ValidDefineName(line0, 8)
             line == IF isDefine /\ ~valid THEN "" ELSE line0
             guard1 == IF line # "" /\ ~Compare(line, 3, "#if") THEN FALSE ELSE includeguard
             def1 == getdef(line, TRUE)
             from_negation == def1 = "" /\ getdef(line, FALSE) # ""
             def2 == IF def1 = "" THEN getdef(line, FALSE) ELSE def1
             def3 == simplifyCondition(VarMapOf(SetToSeq(defines)), def2, FALSE)
             dl1 == (IF deflist # <<>> /\ Compare(line, 6, "#elif ")
                     THEN Front(deflist) ELSE deflist) \o <<def3>>
             cfg == BuildDef(dl1, 1, "")
         IN
         /\ defines' = IF isDefine /\ valid THEN defines \cup {DefineEntry(line0)} ELSE defines
         /\ includeguard' = guard1
         /\ UNCHANGED filelevel
         /\ IF line = "" \/ At(line, 0) # "#" \/ guard1
            THEN UNCHANGED <<gpc, gret, deflist, ndeflist, gerrors>>
            ELSE IF def2 # ""
            THEN IF ParLevel(def2, 0, 0) # 0
                 THEN \* reportErr, ret.clear(), return ret
                      /\ gerrors' = gerrors + 1
                      /\ gret' = <<>>
                      /\ gpc' = "done"
                      /\ UNCHANGED <<deflist, ndeflist>>
                 ELSE /\ deflist' = IF from_negation THEN SetLast(dl1, "!") ELSE dl1
                      /\ ndeflist' = IF from_negation THEN Append(ndeflist, Last(dl1))
                                     ELSE ndeflist
                      /\ gret' = IF cfg \in Range(gret) THEN gret ELSE Append(gret, cfg)
                      /\ UNCHANGED <<gpc, gerrors>>
            ELSE IF Compare(line, 5, "#else") /\ deflist # <<>>
            THEN /\ IF Last(deflist) = "!"
                    THEN /\ deflist' = SetLast(deflist, Last(ndeflist))
                         /\ ndeflist' = Front(ndeflist)
                    ELSE /\ deflist' = SetLast(deflist, IF Last(deflist) = "1" THEN "0" ELSE "1")
                         /\ UNCHANGED ndeflist
                 /\ UNCHANGED <<gpc, gret, gerrors>>
            ELSE IF Compare(line, 6, "#endif") /\ deflist # <<>>
            THEN /\ ndeflist' = IF Last(deflist) = "!" THEN Front(ndeflist) ELSE ndeflist
                 /\ deflist' = Front(deflist)
                 /\ UNCHANGED <<gpc, gret, gerrors>>
            ELSE UNCHANGED <<gpc, gret, deflist, ndeflist, gerrors>>

\* one turn of the loop, and the history of the #ifdef blocks
getcfgsLine(line0) ==
    /\ HistoryStep(line0)
    /\ getcfgsTurn(line0)

-----------------------------------------------------------------------------
(* Preprocessor::getcfgs: after the loop *)

RECURSIVE EraseName(_, _, _)
\* "Remove ifdef configurations that match the defineName"
EraseName(cfg, defineName, from) ==
    LET pos1 == Find(cfg, defineName, from)
        pos2 == pos1 + Len(defineName)
    IN  IF pos1 = NPOS THEN cfg
        ELSE IF pos1 > 0 /\ At(cfg, pos1 - 1) # ";" THEN EraseName(cfg, defineName, pos1 + 1)
        ELSE IF pos2 < Len(cfg) /\ At(cfg, pos2) # ";" THEN EraseName(cfg, defineName, pos1 + 1)
        ELSE EraseName(Erase(cfg, pos1, Len(defineName)), defineName, pos1)

\* "Get name of define"
DefineName(entry) ==
    IF Find(entry, "=", 0) # NPOS THEN Substr(entry, 0, Find(entry, "=", 0)) ELSE entry

RECURSIVE EraseDefines(_, _)
\* the loop over defines for one configuration
EraseDefines(cfg, entries) ==
    IF entries = <<>> THEN cfg
    ELSE EraseDefines(EraseName(cfg, DefineName(Head(entries)), 0), Tail(entries))

RECURSIVE StripLeading(_)
StripLeading(cfg) == IF Len(cfg) > 0 /\ At(cfg, 0) = ";" THEN StripLeading(Erase(cfg, 0, 1)) ELSE cfg

RECURSIVE StripTrailing(_)
StripTrailing(cfg) ==
    IF Len(cfg) > 0 /\ At(cfg, Len(cfg) - 1) = ";"
    THEN StripTrailing(Substr(cfg, 0, Len(cfg) - 1))
    ELSE cfg

RECURSIVE StripDoubled(_, _)
StripDoubled(cfg, from) ==
    IF Find(cfg, ";;", from) = NPOS THEN cfg
    ELSE StripDoubled(Erase(cfg, Find(cfg, ";;", from), 1), Find(cfg, ";;", from))

\* "Remove defined constants from ifdef configurations.." for one configuration
RemoveDefined(it, entries) ==
    LET cfg == EraseDefines(it, entries)
    IN  IF Len(cfg) # Len(it) THEN StripDoubled(StripTrailing(StripLeading(cfg)), 0) ELSE it

RECURSIVE VarList(_, _, _)
\* the identifiers of "defined ( X ) && ..." and "X ;" from token i on
VarList(toks, i, found) ==
    IF i > Len(toks) THEN found
    ELSE IF /\ toks[i] = "defined" /\ Tok(toks, i + 1) = "("
            /\ IsName(Tok(toks, i + 2)) /\ Tok(toks, i + 3) = ")"
         THEN VarList(toks, IF Tok(toks, i + 4) = "&&" THEN i + 5 ELSE i + 4,
                      found \cup {toks[i + 2]})
    ELSE IF IsName(toks[i]) /\ Tok(toks, i + 1) = ";"
         THEN VarList(toks, i + 2, found \cup {toks[i]})
    ELSE found

\* "convert configurations: defined(A) && defined(B) => A;B" for one configuration
ConvertAnd(it) ==
    IF Find(it, "&&", 0) # NPOS
    THEN (IF join(VarList(Tokens(it), 1, {}), ";") # ""
          THEN join(VarList(Tokens(it), 1, {}), ";") ELSE it)
    ELSE it

RECURSIVE InsertSorted(_, _)
InsertSorted(q, x) ==
    IF q = <<>> THEN <<x>>
    ELSE IF StrLess(x, Head(q)) THEN <<x>> \o q
    ELSE <<Head(q)>> \o InsertSorted(Tail(q), x)

RECURSIVE ListSort(_)
\* std::list::sort
ListSort(q) == IF q = <<>> THEN <<>> ELSE InsertSorted(ListSort(Front(q)), Last(q))

\* ListUnique that removes nothing
ListUnique_Keep(q) == q

RECURSIVE ListUnique(_)
\* std::list::unique: of a run of equal neighbours the first stays
ListUnique(q) ==
    IF Len(q) < 2 THEN q
    ELSE IF q[1] = q[2] THEN ListUnique(Tail(q))
    ELSE <<q[1]>> \o ListUnique(Tail(q))

RECURSIVE DigitsEnd(_, _)
DigitsEnd(s, pos) == IF IsDigit(At(s, pos)) THEN DigitsEnd(s, pos + 1) ELSE pos

RECURSIVE UnhandledFrom(_, _)
\* "cleanup unhandled configurations..": the scan of s = cfg + ";" from pos on
UnhandledFrom(s, pos) ==
    IF pos >= Len(s) THEN FALSE
    ELSE IF At(s, pos) = ";" THEN UnhandledFrom(s, pos + 1)
    ELSE IF IsAlpha(At(s, pos)) \/ At(s, pos) = "_"
         THEN IF At(s, WordEnd(s, pos)) = "="
              THEN (IF At(s, DigitsEnd(s, WordEnd(s, pos) + 1)) # ";" THEN TRUE
                    ELSE UnhandledFrom(s, DigitsEnd(s, WordEnd(s, pos) + 1)))
              ELSE UnhandledFrom(s, WordEnd(s, pos))
    ELSE TRUE

\* unhandled that looks at the characters only, not at their order
unhandled_CharsOnly(cfg) ==
    \E k \in 0..(Len(cfg) - 1) : ~IsIdentChar(At(cfg, k)) /\ At(cfg, k) \notin {";", "="}

unhandled(cfg) == UnhandledFrom(cfg \o ";", 0)

MapSeq(Op(_), q) == [i \in 1..Len(q) |-> Op(q[i])]
FilterSeq(Keep(_), q) ==
    LET F[i \in 0..Len(q)] == IF i = 0 THEN <<>>
                             ELSE IF Keep(q[i]) THEN Append(F[i - 1], q[i]) ELSE F[i - 1]
    IN  F[Len(q)]

\* the configurations in canonical form, sorted and without duplicates
Canonical(ret) ==
    LET removeDefined(c) == RemoveDefined(c, SetToSeq(defines))
        canon(c) == unify(c, ";")
    IN  ListUnique(ListSort(MapSeq(canon, MapSeq(ConvertAnd, MapSeq(removeDefined, ret)))))

\* the list getcfgs returns when the input ends
Handled(ret) ==
    LET keep(c) == ~unhandled(c)
    IN  FilterSeq(keep, ret)

-----------------------------------------------------------------------------
(* The input of getcfgs *)

\* lines of cleaned source text
CfgMenu == {"x;", "#ifdef A", "#ifdef B", "#ifndef A", "#elif B", "#else", "#endif",
            "#define A", "#define B 1", "#if (A", "#if B==1", "#ifdef A=1", "#ifdef A=",
            "#file \"h\"", "#endfile"}

\* the lines that continue a text of well-nested #ifdef / #else / #endif blocks
IfdefMenu ==
    {"#ifdef A", "#ifdef B"}
    \cup (IF gopen # <<>> /\ ~Last(gopen).inElse THEN {"#else"} ELSE {})
    \cup (IF gopen # <<>> THEN {"#endif"} ELSE {})

\* conditions on one name and on two names joined by "&&", and #define lines
AndMenu ==
    {"#if defined(A) && defined(B)", "#ifdef A", "#ifdef B", "#else", "#endif",
     "#define A", "#define B 1", "x;"}

-----------------------------------------------------------------------------
(* Actions of getcfgs *)

\* no #include has been handled yet
NoLookup ==
    [line |-> "", type |-> "NoHeader", name |-> "", dir |-> "", tried |-> <<>>,
     opened |-> FALSE, resolved |-> "", chain |-> <<>>, spliced |-> FALSE, flag |-> FALSE]

\* handleIncludes has not been called
IncludeIdle ==
    /\ disk = <<>>
    /\ includePaths = <<>>
    /\ isettings = <<>>
    /\ missingIncludeFlag = FALSE
    /\ ierrors = <<>>
    /\ ipc = "idle"
    /\ idefs = <<>>
    /\ istack = <<>>
    /\ inlines = 0
    /\ iresult = ""
    /\ icode = ""
    /\ ipos = 0
    /\ iendfilePos = 0
    /\ ipaths = <<>>
    /\ handledFiles = {}
    /\ ilast = NoLookup

\* read has not been called
ReadIdle ==
    /\ rpc = "idle"
    /\ gnuc = FALSE
    /\ rinput = ""
    /\ rin = ""
    /\ rgood = FALSE
    /\ rch = ""
    /\ rcode = ""
    /\ rnewlines = 0

\* the character '\0': the initial value of previous and of chPrev, and
\* str[str.length()]; no text of the model holds it, and written to a stream
\* it adds no character of the model
NUL == ""

\* removeComments has not been called
CommentsIdle ==
    /\ mpc = "idle"
    /\ mstr = ""
    /\ msettings = [exists |-> FALSE]
    /\ mi = 0
    /\ mlineno = 0
    /\ mnewlines = 0
    /\ mcode = ""
    /\ mprevious = NUL
    /\ inPreprocessorLine = FALSE
    /\ suppressionIDs = <<>>
    /\ fallThroughComment = FALSE
    /\ madded = <<>>

\* no text has been expanded yet
NoText == [line |-> "", macros |-> <<>>, err |-> "", macro |-> "", given |-> 0, out |-> ""]

\* expandMacros has not been called
ExpandIdle ==
    /\ eistr = ""
    /\ egood = FALSE
    /\ emacros = <<>>
    /\ elinenr = 0
    /\ efilename = ""
    /\ efileinfo = <<>>
    /\ eostr = ""
    /\ eptr = <<>>
    /\ eheap = <<>>
    /\ elast = NoText

\* getcode has not been called
CodeIdle ==
    /\ userDefines = ""
    /\ userUndefs = {}
    /\ errors = <<>>
    /\ cpc = "idle"
    /\ cfgmap = <<>>
    /\ matching_ifdef = <<>>
    /\ matched_ifdef = <<>>
    /\ cmatch = TRUE
    /\ lineno = 0
    /\ filenames = <<>>
    /\ lineNumbers = <<>>
    /\ cret = ""
    /\ result = ""
    /\ nlines = 0
    /\ srcline = <<"", 0>>
    /\ srcstack = <<>>
    /\ last = [line |-> "", map |-> <<>>, depth |-> 0, selected |-> TRUE, out |-> ""]
    /\ chains = <<>>
    /\ stray = FALSE
    /\ ExpandIdle

\* getcfgs has not been called
CfgsIdle ==
    /\ gpc = "idle"
    /\ gret = <<>>
    /\ deflist = <<>>
    /\ ndeflist = <<>>
    /\ defines = {}
    /\ filelevel = 0
    /\ includeguard = FALSE
    /\ glinenr = 0
    /\ gerrors = 0
    /\ gopen = <<>>
    /\ gexpect = {}
    /\ gelse = FALSE
    /\ gdropped = 0

\* InitCfgs without the default configuration in ret
InitCfgs_NoDefault ==
    /\ IncludeIdle
    /\ ReadIdle
    /\ CommentsIdle
    /\ gpc = "loop"
    /\ gret = <<>>
    /\ deflist = <<>>
    /\ ndeflist = <<>>
    /\ defines = {}
    /\ filelevel = 0
    /\ includeguard = FALSE
    /\ glinenr = 0
    /\ gerrors = 0
    /\ gopen = <<>>
    /\ gexpect = {""}
    /\ gelse = FALSE
    /\ gdropped = 0
    /\ CodeIdle

InitCfgs ==
    /\ IncludeIdle
    /\ ReadIdle
    /\ CommentsIdle
    /\ gpc = "loop"
    /\ gret = <<"">>
    /\ deflist = <<>>
    /\ ndeflist = <<>>
    /\ defines = {}
    /\ filelevel = 0
    /\ includeguard = FALSE
    /\ glinenr = 0
    /\ gerrors = 0
    /\ gopen = <<>>
    /\ gexpect = {""}
    /\ gelse = FALSE
    /\ gdropped = 0
    /\ CodeIdle

\* getline delivers a line of arbitrary text
GetcfgsLine ==
    /\ gpc = "loop"
    /\ glinenr < MaxCfgLines
    /\ \E line \in CfgMenu : getcfgsLine(line)
    /\ UNCHANGED <<cvars, evars, rvars, mvars, ivars>>

\* getline delivers a line of a text of #ifdef / #else / #endif blocks
GetcfgsIfdefLine ==
    /\ gpc = "loop"
    /\ glinenr < MaxIfdefLines
    /\ \E line \in IfdefMenu : getcfgsLine(line)
    /\ UNCHANGED <<cvars, evars, rvars, mvars, ivars>>

\* getline delivers a line of a text with "&&" conditions and #define lines
GetcfgsAndLine ==
    /\ gpc = "loop"
    /\ glinenr < MaxAndLines
    /\ \E line \in AndMenu : getcfgsLine(line)
    /\ UNCHANGED <<cvars, evars, rvars, mvars, ivars>>

\* getline fails: the configurations are put in canonical form, the unhandled
\* ones are removed and the list is returned
GetcfgsReturn ==
    /\ gpc = "loop"
    /\ gpc' = "done"
    /\ gret' = Handled(Canonical(gret))
    /\ gdropped' = Len(Canonical(gret)) - Len(Handled(Canonical(gret)))
    /\ UNCHANGED <<deflist, ndeflist, defines, filelevel, includeguard, glinenr,
                   gerrors, gopen, gexpect, gelse>>
    /\ UNCHANGED <<cvars, evars, rvars, mvars, ivars>>

NextCfgs == GetcfgsLine \/ GetcfgsReturn

SpecCfgs == InitCfgs /\ [][NextCfgs]_vars

NextAnd == GetcfgsAndLine \/ GetcfgsReturn

SpecAnd == InitCfgs /\ [][NextAnd]_vars

NextIfdef == GetcfgsIfdefLine \/ GetcfgsReturn

SpecIfdef == InitCfgs /\ [][NextIfdef]_vars

-----------------------------------------------------------------------------
(* Claims about getcfgs *)

C3_SortedUnique ==
    gpc = "done" => \A i, j \in 1..Len(gret) : i < j => StrLess(gret[i], gret[j])

C3_Witness == gpc = "done" /\ Len(gret) >= 3 /\ gdropped > 0

RECURSIVE SplitAt(_, _)
\* the pieces of s between the separators, the empty ones included
SplitAt(s, separator) ==
    IF Find(s, separator, 0) = NPOS THEN <<s>>
    ELSE <<Substr(s, 0, Find(s, separator, 0))>>
         \o SplitAt(SubstrFrom(s, Find(s, separator, 0) + 1), separator)

\* an identifier, or an identifier, "=" and nothing but decimal digits
IsCfgPart(p) ==
    /\ IsAlpha(At(p, 0)) \/ At(p, 0) = "_"
    /\ \/ WordEnd(p, 0) = Len(p)
       \/ /\ At(p, WordEnd(p, 0)) = "="
          /\ \A k \in (WordEnd(p, 0) + 1)..(Len(p) - 1) : IsDigit(At(p, k))

IsCanonicalCfg(c) ==
    \/ c = ""
    \/ LET parts == SplitAt(c, ";")
       IN  /\ \A i \in 1..Len(parts) : parts[i] # "" /\ IsCfgPart(parts[i])
           /\ \A i, j \in 1..Len(parts) : i < j => StrLess(parts[i], parts[j])

\* C4: every configuration getcfgs returns is a ";"-joined sequence of non-empty
\* parts in strictly ascending order, each part an identifier optionally
\* followed by "=" and decimal digits only
C4_CanonicalConfigurations ==
    gpc = "done" => \A i \in 1..Len(gret) : IsCanonicalCfg(gret[i])

C4_Witness ==
    /\ gpc = "done"
    /\ gdropped > 0
    /\ \E i \in 1..Len(gret) : Find(gret[i], ";", 0) # NPOS
    /\ \E i \in 1..Len(gret) : Find(gret[i], "=", 0) # NPOS

\* C5: for a text of well-nested #ifdef / #else / #endif blocks over names that
\* are never #defined, getcfgs returns the empty configuration and, for each
\* #ifdef line, the sorted join of the names of the open guards that are in
\* their #ifdef branch, and nothing else
C5_IfdefConfigurations ==
    (gpc = "done" /\ gopen = <<>>) => Range(gret) = gexpect

C5_Witness ==
    /\ gpc = "done" /\ gopen = <<>> /\ gelse
    /\ \E c \in gexpect : Find(c, ";", 0) # NPOS

\* C16, as stated: no configuration getcfgs returns has among its parts
\* between the ";" a name that a #define line of the text defines, also when
\* the configuration comes from a condition with "&&"
C16_NoDefinedNameInCfg ==
    gpc = "done" =>
        \A i \in 1..Len(gret) : \A d \in defines :
            DefineName(d) \notin Range(SplitAt(gret[i], ";"))

-----------------------------------------------------------------------------
(* Preprocessor::getcode: the loop over the lines *)

RECURSIVE FindFirstOf(_, _, _)
\* s.find_first_of(chars, from)
FindFirstOf(s, chars, from) ==
    IF from >= Len(s) THEN NPOS
    ELSE IF At(s, from) \in chars THEN from
    ELSE FindFirstOf(s, chars, from + 1)

RECURSIVE FindFirstNotOf(_, _, _)
\* s.find_first_not_of(c, from)
FindFirstNotOf(s, c, from) ==
    IF from >= Len(s) THEN NPOS
    ELSE IF At(s, from) # c THEN from
    ELSE FindFirstNotOf(s, c, from + 1)

\* map[k] = v
MapPut(map, k, v) == [n \in DOMAIN map \cup {k} |-> IF n = k THEN v ELSE map[n]]

\* map.erase(k)
MapErase(map, k) ==
    IF DOMAIN map \ {k} = {} THEN <<>> ELSE [n \in DOMAIN map \ {k} |-> map[n]]

RECURSIVE ParseCfg(_, _, _)
\* "Create a map for the cfg for faster access to defines": the loop from pos on
ParseCfg(cfg, pos, map) ==
    LET pos2 == FindFirstOf(cfg, {";", "="}, pos)
    IN  IF pos2 = NPOS THEN MapPut(map, SubstrFrom(cfg, pos), "")
        ELSE IF At(cfg, pos2) = ";"
        THEN ParseCfg(cfg, pos2 + 1, MapPut(map, Substr(cfg, pos, pos2 - pos), ""))
        ELSE LET pos3 == pos2
                 end == Find(cfg, ";", pos2)
             IN  IF end = NPOS
                 THEN MapPut(map, Substr(cfg, pos, pos3 - pos), SubstrFrom(cfg, pos3 + 1))
                 ELSE ParseCfg(cfg, end + 1,
                               MapPut(map, Substr(cfg, pos, pos3 - pos),
                                      Substr(cfg, pos3 + 1, end - pos3 - 1)))

\* the cfgmap getcode starts with
CfgMapOf(cfg) == IF cfg = "" THEN <<>> ELSE ParseCfg(cfg, 0, <<>>)

\* AllMatching that looks at the innermost conditional only
AllMatching_TopOnly(matching) == matching = <<>> \/ Last(matching)

\* "match &= bool(*it)" over matching_ifdef
AllMatching(matching) == \A i \in 1..Len(matching) : matching[i]

\* the loop over userUndefs on a #define line: some name of userUndefs is found in it
UserUndefsHit(line, undefs) ==
    \E it \in undefs :
        LET pos == FindFirstNotOf(line, " ", 8)
            pos2 == IF pos = NPOS THEN NPOS ELSE Find(line, it, pos)
        IN  /\ pos # NPOS
            /\ pos2 # NPOS
            /\ \/ Len(line) = pos2 + Len(it)
               \/ At(line, pos2 + Len(it)) = " "
               \/ At(line, pos2 + Len(it)) = "("

\* what "if (match)" of a #define line does to cfgmap
DefineInsert(map, line) ==
    LET pos == FindFirstOf(line, {" ", "("}, 8)
    IN  IF pos = NPOS THEN MapPut(map, SubstrFrom(line, 8), "")
        ELSE IF At(line, pos) = " "
        THEN LET value == SubstrFrom(line, pos + 1)
             IN  MapPut(map, Substr(line, 8, pos - 8),
                        IF value \in DOMAIN map THEN map[value] ELSE value)
        ELSE MapPut(map, Substr(line, 8, pos - 8), "")

\* cfgmap after the directive in line
MapAfter(map, matching, undefs, line) ==
    IF Compare(line, 8, "#define ")
    THEN IF ~UserUndefsHit(line, undefs) /\ AllMatching(matching)
         THEN DefineInsert(map, line)
         ELSE map
    ELSE IF Compare(line, 7, "#undef ") THEN MapErase(map, SubstrFrom(line, 7))
    ELSE map

\* ElseBranch that negates the branch that is open instead of matched_ifdef
ElseBranch_NotMatching(matching, matched) == SetLast(matching, ~Last(matching))

\* "#else": matching_ifdef.back() = ! matched_ifdef.back()
ElseBranch(matching, matched) == SetLast(matching, ~Last(matched))

\* "#elif": the branch is taken if none was and its condition v holds
ElifBranch(matching, matched, v) ==
    IF Last(matched) THEN <<SetLast(matching, FALSE), matched>>
    ELSE IF v THEN <<SetLast(matching, TRUE), SetLast(matched, TRUE)>>
    ELSE <<matching, matched>>

\* "#if", "#ifdef", "#ifndef": push_back(v) on both lists
PushBranch(matching, matched, v) == <<Append(matching, v), Append(matched, v)>>

\* matching_ifdef and matched_ifdef after the directive in line
StacksAfter(map, matching, matched, line) ==
    IF Compare(line, 8, "#define ") \/ Compare(line, 7, "#undef ")
    THEN <<matching, matched>>
    ELSE IF ~(matching = <<>> \/ matched = <<>>) /\ Compare(line, 7, "#elif !")
    THEN ElifBranch(matching, matched, ~match_cfg_def(map, getdef(line, FALSE)))
    ELSE IF ~(matching = <<>> \/ matched = <<>>) /\ Compare(line, 6, "#elif ")
    THEN ElifBranch(matching, matched, match_cfg_def(map, getdef(line, TRUE)))
    ELSE IF getdef(line, TRUE) # ""
    THEN PushBranch(matching, matched, match_cfg_def(map, getdef(line, TRUE)))
    ELSE IF getdef(line, FALSE) # ""
    THEN PushBranch(matching, matched, ~match_cfg_def(map, getdef(line, FALSE)))
    ELSE IF ~(matching = <<>> \/ matched = <<>>) /\ line = "#else"
    THEN <<ElseBranch(matching, matched), matched>>
    ELSE IF Compare(line, 6, "#endif")
    THEN <<IF matching # <<>> THEN Front(matching) ELSE matching,
           IF matched # <<>> THEN Front(matched) ELSE matched>>
    ELSE <<matching, matched>>

\* the line as "ret << line" writes it
EmittedLine(line, m) ==
    IF ~m /\ (Compare(line, 8, "#define ") \/ Compare(line, 6, "#undef")) THEN ""
    ELSE IF \/ Compare(line, 7, "#file \"") \/ Compare(line, 8, "#endfile")
            \/ Compare(line, 8, "#define ") \/ Compare(line, 6, "#undef")
    THEN line
    ELSE IF ~m \/ Compare(line, 1, "#") THEN ""
    ELSE line

\* what the "#pragma endasm" line leaves in ret before its newline
EndAsm(line) ==
    IF Find(line, "=", 0) = NPOS THEN ""
    ELSE LET toks == Tokens(Erase(line, 0, 15))
         IN  IF /\ Len(toks) >= 5 /\ toks[1] = "(" /\ IsName(toks[2])
                /\ toks[3] = "=" /\ toks[5] = ")"
             THEN "asm(" \o toks[2] \o ");"
             ELSE ""

\* Preprocessor::error: the message handed to the error logger
ErrorMessage(filename, linenr, msg) ==
    [id |-> "preprocessorErrorDirective",
     loc |-> IF filename # "" THEN <<filename, linenr>> ELSE <<>>,
     msg |-> msg]

\* history: the location of the line getline delivers next
ReadLocation == <<Last(srcstack).file, Last(srcstack).n + 1>>

\* history: the files that are open after the line read
LocationsAfter(line, outer) ==
    LET counted == SetLast(srcstack, [file |-> Last(srcstack).file, n |-> Last(srcstack).n + 1])
    IN  IF outer /\ Compare(line, 7, "#file \"")
        THEN Append(counted, [file |-> Substr(line, 7, Len(line) - 8), n |-> 0])
        ELSE IF outer /\ Compare(line, 8, "#endfile") /\ Len(counted) > 1
        THEN Front(counted)
        ELSE counted

\* history: the conditionals that are open, with the number of their branches
\* that were selected and whether their #else has been read
ChainsAfter(line, matching1) ==
    LET sel == IF matching1 # <<>> /\ Last(matching1) THEN 1 ELSE 0
    IN  IF Compare(line, 3, "#if")
        THEN Append(chains, [branches |-> 1, selected |-> sel, else |-> FALSE,
                             wellformed |-> TRUE])
        ELSE IF chains = <<>> THEN chains
        ELSE IF Compare(line, 6, "#elif ")
        THEN SetLast(chains, [branches |-> Last(chains).branches + 1,
                              selected |-> Last(chains).selected + sel,
                              else |-> Last(chains).else,
                              wellformed |-> Last(chains).wellformed /\ ~Last(chains).else])
        ELSE IF line = "#else"
        THEN SetLast(chains, [branches |-> Last(chains).branches + 1,
                              selected |-> Last(chains).selected + sel,
                              else |-> TRUE,
                              wellformed |-> Last(chains).wellformed /\ ~Last(chains).else])
        ELSE IF Compare(line, 6, "#endif") THEN Front(chains)
        ELSE chains

\* getcode(filedata, cfg, filename) up to its loop
getcodeBegin(cfg, filename) ==
    /\ cpc = "loop"
    /\ cfgmap = CfgMapOf(cfg)
    /\ matching_ifdef = <<>>
    /\ matched_ifdef = <<>>
    /\ cmatch = TRUE
    /\ lineno = 0
    /\ filenames = <<filename>>
    /\ lineNumbers = <<>>
    /\ cret = ""
    /\ result = ""
    /\ errors = <<>>
    /\ nlines = 0
    /\ srcline = <<"", 0>>
    /\ srcstack = <<[file |-> filename, n |-> 0]>>
    /\ last = [line |-> "", map |-> <<>>, depth |-> 0, selected |-> TRUE, out |-> ""]
    /\ chains = <<>>
    /\ stray = FALSE
    /\ ExpandIdle

\* the end of a turn: "#error => return """, the file stack, "ret << line"
getcodeEmit(line, m) ==
    IF m /\ Compare(line, 6, "#error")
    THEN /\ errors' = IF userDefines # ""
                      THEN Append(errors, ErrorMessage(Last(filenames), lineno + 1, line))
                      ELSE errors
         /\ result' = ""
         /\ cpc' = "error"
         /\ lineno' = lineno + 1
         /\ UNCHANGED <<filenames, lineNumbers, cret>>
    ELSE /\ IF Compare(line, 7, "#file \"")
            THEN /\ filenames' = Append(filenames, Substr(line, 7, Len(line) - 8))
                 /\ lineNumbers' = Append(lineNumbers, lineno + 1)
                 /\ lineno' = 0
            ELSE IF Compare(line, 8, "#endfile")
            THEN /\ filenames' = IF Len(filenames) > 1 THEN Front(filenames) ELSE filenames
                 /\ lineNumbers' = IF lineNumbers # <<>> THEN Front(lineNumbers)
                                   ELSE lineNumbers
                 /\ lineno' = IF lineNumbers # <<>> THEN Last(lineNumbers) ELSE lineno + 1
            ELSE /\ lineno' = lineno + 1
                 /\ UNCHANGED <<filenames, lineNumbers>>
         /\ cret' = cret \o EmittedLine(line, m) \o "\n"
         /\ UNCHANGED <<cpc, result, errors>>

\* the middle of a turn: match is computed again on a line that begins with #
getcodeMatch(line, m) ==
    /\ cmatch' = m
    /\ last' = [line |-> line, map |-> cfgmap, depth |-> Len(matching_ifdef),
                selected |-> \A i \in 1..Len(matching_ifdef) : matching_ifdef[i],
                out |-> EmittedLine(line, m)]
    /\ getcodeEmit(line, m)

\* the beginning of a turn: the directive acts on cfgmap and on the two lists
getcodeDirective(line, stacks) ==
    /\ cfgmap' = MapAfter(cfgmap, matching_ifdef, userUndefs, line)
    /\ matching_ifdef' = stacks[1]
    /\ matched_ifdef' = stacks[2]
    /\ chains' = ChainsAfter(line, stacks[1])
    /\ stray' = (stray \/ (chains = <<>> /\ (\/ Compare(line, 6, "#elif ")
                                            \/ line = "#else"
                                            \/ Compare(line, 6, "#endif"))))
    /\ getcodeMatch(line, IF line # "" /\ At(line, 0) = "#"
                          THEN AllMatching(stacks[1]) ELSE cmatch)

\* one turn of "while (std::getline(istr, line))"
getcodeLine(line) ==
    /\ nlines' = nlines + 1
    /\ srcline' = ReadLocation
    /\ UNCHANGED <<userDefines, userUndefs, evars>>
    /\ IF Compare(line, 11, "#pragma asm")
       THEN /\ lineno' = lineno + 1
            /\ cret' = cret \o "\n"
            /\ cpc' = "asm"
            /\ srcstack' = LocationsAfter(line, FALSE)
            /\ last' = [line |-> line, map |-> cfgmap, depth |-> Len(matching_ifdef),
                        selected |-> \A i \in 1..Len(matching_ifdef) : matching_ifdef[i],
                        out |-> ""]
            /\ UNCHANGED <<cfgmap, matching_ifdef, matched_ifdef, cmatch, filenames,
                           lineNumbers, result, errors, chains, stray>>
       ELSE /\ srcstack' = LocationsAfter(line, TRUE)
            /\ getcodeDirective(line, StacksAfter(cfgmap, matching_ifdef, matched_ifdef, line))

\* one turn of "while (getline(istr, line))" between #pragma asm and #pragma endasm
getcodeAsmLine(line) ==
    /\ nlines' = nlines + 1
    /\ srcline' = ReadLocation
    /\ srcstack' = LocationsAfter(line, FALSE)
    /\ last' = [line |-> line, map |-> cfgmap, depth |-> Len(matching_ifdef),
                 selected |-> \A i \in 1..Len(matching_ifdef) : matching_ifdef[i],
                 out |-> ""]
    /\ IF Compare(line, 14, "#pragma endasm")
       THEN /\ cret' = cret \o EndAsm(line) \o "\n"
            /\ cpc' = "loop"
       ELSE /\ cret' = cret \o "\n"
            /\ cpc' = "asm"
    /\ UNCHANGED <<userDefines, userUndefs, errors, cfgmap, matching_ifdef, matched_ifdef,
                   cmatch, lineno, filenames, lineNumbers, result, chains, stray, evars>>

-----------------------------------------------------------------------------
(* skipstring, getparams *)

RECURSIVE SkipTo(_, _, _)
\* the while loop of skipstring
SkipTo(line, pos, ch) ==
    IF pos < Len(line) /\ At(line, pos) # ch
    THEN SkipTo(line, IF At(line, pos) = "\\" THEN pos + 2 ELSE pos + 1, ch)
    ELSE pos

\* static void skipstring(line, pos): the position it leaves in pos
skipstring(line, pos) == SkipTo(line, pos + 1, At(line, pos))

\* getparamsLoop that does not count the newlines of the macro call
RECURSIVE getparamsLoop_NoNewlines(_, _, _, _, _)
getparamsLoop_NoNewlines(line, pos, parlevel, par, params) ==
    IF pos >= Len(line) THEN [pos |-> pos, params |-> params, num |-> 0, endFound |-> FALSE]
    ELSE LET ch == At(line, pos)
             pl == IF ch = "(" THEN parlevel + 1 ELSE IF ch = ")" THEN parlevel - 1 ELSE parlevel
         IN  IF ch = "(" /\ pl = 1 THEN getparamsLoop_NoNewlines(line, pos + 1, pl, par, params)
             ELSE IF ch = ")" /\ pl <= 0
             THEN [pos |-> pos, params |-> Append(params, par), num |-> 0, endFound |-> TRUE]
             ELSE IF ch = "\"" \/ ch = "'"
             THEN LET end == skipstring(line, pos)
                  IN  IF end = Len(line)
                      THEN [pos |-> end, params |-> params, num |-> 0, endFound |-> FALSE]
                      ELSE getparamsLoop_NoNewlines(line, end + 1, pl,
                                                    par \o Substr(line, pos, end + 1 - pos), params)
             ELSE IF ch = "\n" THEN getparamsLoop_NoNewlines(line, pos + 1, pl, par, params)
             ELSE IF pl = 1 /\ ch = ","
             THEN getparamsLoop_NoNewlines(line, pos + 1, pl, "", Append(params, par))
             ELSE IF ch = " "
             THEN getparamsLoop_NoNewlines(line, pos + 1, pl,
                      IF par # "" /\ IsAlnum(At(par, Len(par) - 1)) THEN par \o " " ELSE par,
                      params)
             ELSE getparamsLoop_NoNewlines(line, pos + 1, pl,
                                           IF pl >= 1 THEN par \o ch ELSE par, params)

RECURSIVE getparamsLoop(_, _, _, _, _)
\* "scan for parameters..": the for loop of getparams from pos on
getparamsLoop(line, pos, parlevel, par, params) ==
    IF pos >= Len(line) THEN [pos |-> pos, params |-> params, num |-> 0, endFound |-> FALSE]
    ELSE LET ch == At(line, pos)
             pl == IF ch = "(" THEN parlevel + 1 ELSE IF ch = ")" THEN parlevel - 1 ELSE parlevel
         IN  IF ch = "(" /\ pl = 1 THEN getparamsLoop(line, pos + 1, pl, par, params)
             ELSE IF ch = ")" /\ pl <= 0
             THEN [pos |-> pos, params |-> Append(params, par), num |-> 0, endFound |-> TRUE]
             ELSE IF ch = "\"" \/ ch = "'"
             THEN LET end == skipstring(line, pos)
                  IN  IF end = Len(line)
                      THEN [pos |-> end, params |-> params, num |-> 0, endFound |-> FALSE]
                      ELSE getparamsLoop(line, end + 1, pl,
                                         par \o Substr(line, pos, end + 1 - pos), params)
             ELSE IF ch = "\n"
             THEN LET r == getparamsLoop(line, pos + 1, pl, par, params)
                  IN  [r EXCEPT !.num = @ + 1]
             ELSE IF pl = 1 /\ ch = ","
             THEN getparamsLoop(line, pos + 1, pl, "", Append(params, par))
             ELSE IF ch = " "
             THEN getparamsLoop(line, pos + 1, pl,
                      IF par # "" /\ IsAlnum(At(par, Len(par) - 1)) THEN par \o " " ELSE par,
                      params)
             ELSE getparamsLoop(line, pos + 1, pl, IF pl >= 1 THEN par \o ch ELSE par, params)

\* static void getparams(line, pos, params, numberOfNewlines, endFound): its four results
getparams(line, pos0) ==
    LET pos == IF At(line, pos0) = " " THEN pos0 + 1 ELSE pos0
    IN  IF At(line, pos) # "("
        THEN [pos |-> pos, params |-> <<>>, num |-> 0, endFound |-> FALSE]
        ELSE getparamsLoop(line, pos, 0, "", <<>>)

-----------------------------------------------------------------------------
(* class PreprocessorMacro *)

RECURSIVE MacroParamsLoop(_, _, _)
\* "Extract macro parameters": the loop over the tokens from i on
MacroParamsLoop(toks, i, acc) ==
    IF i > Len(toks) \/ toks[i] = ")" THEN [params |-> acc, variadic |-> FALSE]
    ELSE IF <<toks[i], Tok(toks, i + 1), Tok(toks, i + 2), Tok(toks, i + 3)>>
            = <<".", ".", ".", ")">>
    THEN [params |-> IF toks[i - 1] = "," THEN Append(acc, "__VA_ARGS__") ELSE acc,
          variadic |-> TRUE]
    ELSE MacroParamsLoop(toks, i + 1, IF IsName(toks[i]) THEN Append(acc, toks[i]) ELSE acc)

\* explicit PreprocessorMacro(const std::string &macro): the fields it sets
PreprocessorMacro(macro) ==
    LET toks == Tokens(macro)
        name == IF toks # <<>> /\ IsName(toks[1]) THEN toks[1] ELSE ""
        pos == FindFirstOf(macro, {" ", "("}, 0)
        paren == pos # NPOS /\ At(macro, pos) = "("
        named == paren /\ IsName(Tok(toks, 1)) /\ Tok(toks, 2) = "(" /\ IsName(Tok(toks, 3))
        dots == /\ paren /\ ~named /\ IsName(Tok(toks, 1))
                /\ <<Tok(toks, 2), Tok(toks, 3), Tok(toks, 4), Tok(toks, 5), Tok(toks, 6)>>
                   = <<"(", ".", ".", ".", ")">>
        empty == /\ paren /\ ~named /\ ~dots /\ IsName(Tok(toks, 1))
                 /\ <<Tok(toks, 2), Tok(toks, 3)>> = <<"(", ")">>
        scan == MacroParamsLoop(toks, 3, <<>>)
    IN  [macro |-> macro,
         tokens |-> toks,
         name |-> name,
         params |-> IF named THEN scan.params ELSE <<>>,
         variadic |-> IF named THEN scan.variadic ELSE dots,
         nopar |-> empty]

\* s.insert(pos, t)
Insert(s, pos, t) == SubSeq(s, 1, pos) \o t \o SubSeq(s, pos + 1, Len(s))

RECURSIVE ReplaceVaArgs(_, _, _)
\* "Replace "__VA_ARGS__" with parameters"
ReplaceVaArgs(macrocode, s, pos) ==
    LET p == Find(macrocode, "__VA_ARGS__", pos)
    IN  IF p = NPOS THEN macrocode
        ELSE ReplaceVaArgs(Insert(Erase(macrocode, p, 11), p, s), s, p + Len(s))

\* macrocode up to its first newline
CutNewline(macrocode) ==
    IF Find(macrocode, "\n", 0) = NPOS THEN macrocode
    ELSE Substr(macrocode, 0, Find(macrocode, "\n", 0))

RECURSIVE Quoted(_, _)
\* the stringified parameter without its enclosing quotes
Quoted(s, j) ==
    IF j >= Len(s) THEN ""
    ELSE (IF At(s, j) = "\\" \/ At(s, j) = "\"" THEN "\\" ELSE "") \o At(s, j) \o Quoted(s, j + 1)

\* the least index i with params[i] = str, 0 if there is none
ParamIndex(params, str) ==
    IF \E i \in 1..Len(params) : params[i] = str
    THEN CHOOSE i \in 1..Len(params) :
             params[i] = str /\ \A j \in 1..(i - 1) : params[j] # str
    ELSE 0

\* the text of a macro in "macros" that has no parenthesis, from its first space on
NoparText(macro) ==
    IF Find(macro, " ", 0) # NPOS THEN SubstrFrom(macro, Find(macro, " ", 0)) ELSE ""

RECURSIVE code(_, _, _)

RECURSIVE InnerParams(_, _, _, _, _)
\* the loop over ipar of expandInnerMacros
InnerParams(params1, params2, ipar, innerMacroName, macros) ==
    IF ipar > Len(params1) THEN params2
    ELSE LET s == innerMacroName \o "("
             param == params1[ipar]
             g == getparams(param, Len(s) - 1)
         IN  IF /\ Compare(param, Len(s), s)
                /\ At(param, Len(param) - 1) = ")"
                /\ g.pos = Len(param) - 1 /\ g.num = 0 /\ g.endFound
                /\ Len(g.params) = Len(params1)
                /\ innerMacroName \in DOMAIN macros
             THEN InnerParams(params1,
                              [params2 EXCEPT ![ipar] =
                                  code(macros[innerMacroName], g.params,
                                       MapErase(macros, innerMacroName)).macrocode],
                              ipar + 1, innerMacroName, macros)
             ELSE InnerParams(params1, params2, ipar + 1, innerMacroName, macros)

RECURSIVE InnerCallEnd(_, _, _)
\* "while (Token::Match(tok, "%var% ,|)"))": the token reached and the count
InnerCallEnd(toks, i, par) ==
    IF IsName(Tok(toks, i)) /\ Tok(toks, i + 1) \in {",", ")"}
    THEN InnerCallEnd(toks, i + 2, par + 1)
    ELSE <<i, par>>

\* std::vector<std::string> expandInnerMacros(params1, macros)
expandInnerMacros(toks, params1, macros) ==
    IF ~\E k \in 1..Len(toks) : toks[k] = ")" THEN params1
    ELSE LET k == CHOOSE k \in 1..Len(toks) : toks[k] = ")" /\ \A j \in 1..(k - 1) : toks[j] # ")"
             e == InnerCallEnd(toks, k + 3, 0)
         IN  IF ~(IsName(Tok(toks, k + 1)) /\ Tok(toks, k + 2) = "(") THEN params1
             ELSE IF e[1] <= Len(toks) \/ e[2] # Len(params1) THEN params1
             ELSE InnerParams(params1, params1, 1, toks[k + 1], macros)

\* givenparams[j] for j from the last declared parameter on, with their commas
VariadicText(nparams, givenparams, optcomma) ==
    IF nparams > Len(givenparams) THEN ""
    ELSE (IF optcomma THEN "," ELSE "")
         \o JoinSeq(SubSeq(givenparams, nparams, Len(givenparams)), ",")

RECURSIVE codeLoop(_, _, _, _, _, _)
\* "while (NULL != (tok = tok->next()))" of code: toks[i] is the token read
codeLoop(m, i, givenparams, macros, macrocode, optcomma) ==
    IF i > Len(m.tokens) THEN [ok |-> TRUE, macrocode |-> macrocode]
    ELSE LET tok == m.tokens[i]
             stringify == At(tok, 0) = "#"
             word == stringify \/ IsName(tok)
             str1 == IF stringify THEN Erase(tok, 0, 1) ELSE tok
             ix == IF word THEN ParamIndex(m.params, str1) ELSE 0
             rest == /\ ix > 0 /\ m.variadic
                     /\ \/ ix = Len(m.params)
                        \/ (Len(givenparams) + 2 = Len(m.params) /\ ix + 1 = Len(m.params))
             missing == ix > 0 /\ ~rest /\ ix > Len(givenparams)
             str2 == IF ix = 0 \/ missing THEN str1
                     ELSE IF rest THEN VariadicText(Len(m.params), givenparams, optcomma)
                     ELSE IF stringify THEN "\"" \o Quoted(givenparams[ix], 0) \o "\""
                     ELSE givenparams[ix]
             str3 == IF /\ word /\ Tok(m.tokens, i - 1) # "##"
                        /\ str2 \in DOMAIN macros
                        /\ Find(macros[str2].macro, "(", 0) = NPOS
                     THEN NoparText(macros[str2].macro)
                     ELSE str2
             glue == \/ (IsName(tok) /\ IsName(Tok(m.tokens, i + 1)))
                     \/ (IsName(tok) /\ IsNum(Tok(m.tokens, i + 1)))
                     \/ (IsNum(tok) /\ IsName(Tok(m.tokens, i + 1)))
                     \/ (tok = ">" /\ Tok(m.tokens, i + 1) = ">")
         IN  IF tok = "##" THEN codeLoop(m, i + 1, givenparams, macros, macrocode, optcomma)
             ELSE IF missing THEN [ok |-> FALSE, macrocode |-> ""]
             ELSE IF m.variadic /\ tok = "," /\ Tok(m.tokens, i + 1) = "##"
             THEN codeLoop(m, i + 1, givenparams, macros, macrocode, TRUE)
             ELSE codeLoop(m, i + 1, givenparams, macros,
                           macrocode \o str3 \o (IF glue THEN " " ELSE ""), FALSE)

\* bool code(params2, macros, macrocode) of the macro m: its result and macrocode
code(m, params2, macros) ==
    IF m.nopar \/ (m.params = <<>> /\ m.variadic)
    THEN LET c0 == SubstrFrom(m.macro, 1 + Find(m.macro, ")", 0))
             c1 == IF FindFirstNotOf(c0, " ", 0) = NPOS THEN ""
                   ELSE SubstrFrom(c0, FindFirstNotOf(c0, " ", 0))
             c2 == CutNewline(c1)
         IN  [ok |-> TRUE,
              macrocode |-> IF c0 = "" THEN ""
                            ELSE IF m.nopar THEN c2
                            ELSE ReplaceVaArgs(c2, JoinSeq(params2, ","), 0)]
    ELSE IF m.params = <<>>
    THEN LET pos == FindFirstOf(m.macro, {" ", "\""}, 0)
         IN  [ok |-> TRUE,
              macrocode |-> IF pos = NPOS THEN ""
                            ELSE CutNewline(SubstrFrom(m.macro,
                                     IF At(m.macro, pos) = " " THEN pos + 1 ELSE pos))]
    ELSE LET givenparams == expandInnerMacros(m.tokens, params2, macros)
         IN  IF \E k \in 1..Len(m.tokens) : m.tokens[k] = ")"
             THEN codeLoop(m,
                           1 + CHOOSE k \in 1..Len(m.tokens) :
                                   m.tokens[k] = ")" /\ \A j \in 1..(k - 1) : m.tokens[j] # ")",
                           givenparams, macros, "", FALSE)
             ELSE [ok |-> TRUE, macrocode |-> ""]

-----------------------------------------------------------------------------
(* getlines *)

RECURSIVE getlinesString(_, _, _, _)
\* the "while (istr.good() && c != ch)" loop of getlines: c is the character read last
getlinesString(rest, line, c, ch) ==
    IF c = ch THEN [done |-> FALSE, line |-> line, rest |-> rest, good |-> TRUE]
    ELSE IF c = "\\"
    THEN IF rest = "" THEN [done |-> TRUE, line |-> line, rest |-> "", good |-> FALSE]
         ELSE IF Len(rest) = 1
         THEN [done |-> TRUE, line |-> line \o rest, rest |-> "", good |-> FALSE]
         ELSE IF At(rest, 1) = "\n" /\ Compare(line \o At(rest, 0), 1, "#")
         THEN [done |-> TRUE, line |-> line \o At(rest, 0), rest |-> SubstrFrom(rest, 2),
               good |-> TRUE]
         ELSE getlinesString(SubstrFrom(rest, 2), line \o Substr(rest, 0, 2), At(rest, 1), ch)
    ELSE IF rest = "" THEN [done |-> TRUE, line |-> line, rest |-> "", good |-> FALSE]
    ELSE IF At(rest, 0) = "\n" /\ Compare(line, 1, "#")
    THEN [done |-> TRUE, line |-> line, rest |-> SubstrFrom(rest, 1), good |-> TRUE]
    ELSE getlinesString(SubstrFrom(rest, 1), line \o At(rest, 0), At(rest, 0), ch)

RECURSIVE getlinesLoop(_, _, _)
\* the for loop of getlines over the characters of istr
getlinesLoop(rest, line, parlevel) ==
    IF rest = "" THEN [line |-> line, rest |-> "", good |-> FALSE]
    ELSE LET ch == At(rest, 0)
             r == SubstrFrom(rest, 1)
         IN  IF ch = "'" \/ ch = "\""
             THEN LET q == getlinesString(r, line \o ch, "", ch)
                  IN  IF q.done THEN [line |-> q.line, rest |-> q.rest, good |-> q.good]
                      ELSE getlinesLoop(q.rest, q.line, parlevel)
             ELSE IF ch = "(" THEN getlinesLoop(r, line \o ch, parlevel + 1)
             ELSE IF ch = ")" THEN getlinesLoop(r, line \o ch, parlevel - 1)
             ELSE IF ch = "\n"
             THEN IF Compare(line, 1, "#") THEN [line |-> line, rest |-> r, good |-> TRUE]
                  ELSE IF At(r, 0) = "#" THEN [line |-> line \o ch, rest |-> r, good |-> TRUE]
                  ELSE getlinesLoop(r, line \o ch, parlevel)
             ELSE IF ~Compare(line, 1, "#") /\ parlevel <= 0 /\ ch = ";"
             THEN [line |-> line \o ";", rest |-> r, good |-> TRUE]
             ELSE getlinesLoop(r, line \o ch, parlevel)

\* static bool getlines(istr, line), called while istr.good()
getlines(rest) == getlinesLoop(rest, "", 0)

-----------------------------------------------------------------------------
(* Preprocessor::expandMacros *)

\* Preprocessor::writeError: the message handed to the error logger
writeError(fileName, line_nr, errorType) ==
    [id |-> errorType, loc |-> <<fileName, line_nr>>, msg |-> errorType]

RECURSIVE IdentEnd(_, _)
\* "find the end of the identifier"
IdentEnd(line, pos) ==
    IF pos < Len(line) /\ (IsAlnum(At(line, pos)) \/ At(line, pos) = "_")
    THEN IdentEnd(line, pos + 1)
    ELSE pos

\* "pos <= line.length() - it2->second" never holds
WithinLimit_Never(pos, length, limit) == FALSE

\* "pos <= line.length() - it2->second" in std::string::size_type arithmetic:
\* the difference wraps around to a huge value when the limit exceeds the length
WithinLimit(pos, length, limit) == IF limit <= length THEN pos <= length - limit ELSE TRUE

\* "Remove old limits"
RemoveOldLimits(limits, length, pos1) ==
    LET keep == {k \in DOMAIN limits : ~((length - pos1) < limits[k])}
    IN  IF keep = {} THEN <<>> ELSE [k \in keep |-> limits[k]]

\* the number of parameters is not checked
SameCount_Unchecked(macro, params) == TRUE

\* "Check that it's the same number of parameters.."
SameCount(macro, params) == macro.variadic \/ Len(params) = Len(macro.params)

\* history: x is what the scan returns after it has consulted limit for a
\* line of the given length
Consulted(x, length, limit) == IF limit > length THEN [x EXCEPT !.wrapped = TRUE] ELSE x

RECURSIVE expandScan(_, _, _, _, _, _)
RECURSIVE expandIdent(_, _, _, _, _, _)

\* "while (pos < line.size())": the line after all expansions, or the error found;
\* n counts the macros expanded so far in this line
expandScan(line, pos, limits, tmpLinenr, macros, n) ==
    IF pos >= Len(line)
    THEN [err |-> "", macro |-> "", given |-> 0, line |-> line, tmpLinenr |-> tmpLinenr,
          wrapped |-> FALSE]
    ELSE LET t == IF At(line, pos) = "\n" THEN tmpLinenr + 1 ELSE tmpLinenr
         IN  IF At(line, pos) = "\"" \/ At(line, pos) = "'"
             THEN LET p == skipstring(line, pos) + 1
                  IN  IF p >= Len(line)
                      THEN [err |-> "noQuoteCharPair", macro |-> "", given |-> 0,
                            line |-> line, tmpLinenr |-> t, wrapped |-> FALSE]
                      ELSE expandScan(line, p, limits, t, macros, n)
             ELSE expandIdent(line,
                              IF ~IsAlpha(At(line, pos)) /\ At(line, pos) # "_"
                              THEN pos + 1 ELSE pos,
                              limits, t, macros, n)

\* "found an identifier..": the inner while loop of the scan
expandIdent(line, pos1, limits, t, macros, n) ==
    IF ~(pos1 < Len(line) /\ (IsAlpha(At(line, pos1)) \/ At(line, pos1) = "_"))
    THEN expandScan(line, pos1, limits, t, macros, n)
    ELSE LET pos == IdentEnd(line, pos1 + 1)
             id == Substr(line, pos1, pos - pos1)
         IN  IF id \notin DOMAIN macros THEN expandScan(line, pos, limits, t, macros, n)
             ELSE LET macro == macros[id]
                      parens == macro.variadic \/ macro.nopar \/ macro.params # <<>>
                      g == IF parens THEN getparams(line, pos)
                           ELSE [pos |-> pos, params |-> <<>>, num |-> 0, endFound |-> TRUE]
                      params == IF g.params = <<"">> THEN <<>> ELSE g.params
                      c == code(macro, params, macros)
                      pos2 == IF parens THEN g.pos + 1 ELSE g.pos
                      limits2 == MapPut(RemoveOldLimits(limits, Len(line), pos1),
                                        id, Len(line) - pos2)
                      erased == Erase(line, pos1, pos2 - pos1)
                      macrocode == JoinSeq([k \in 1..g.num |-> "\n"], "") \o c.macrocode
                                   \o (IF IsAlnum(At(erased, pos1)) \/ At(erased, pos1) = "_"
                                       THEN " " ELSE "")
                  IN  IF id \in DOMAIN limits /\ WithinLimit(pos, Len(line), limits[id])
                      THEN Consulted(expandScan(line, pos, limits, t, macros, n),
                                     Len(line), limits[id])
                      ELSE IF macro.params # <<>> /\ pos >= Len(line)
                      THEN expandScan(line, pos, limits, t, macros, n)
                      ELSE IF ~g.endFound THEN expandScan(line, pos, limits, t, macros, n)
                      ELSE IF ~SameCount(macro, params)
                      THEN expandScan(line, pos, limits, t, macros, n)
                      ELSE IF ~c.ok
                      THEN [err |-> "syntaxError", macro |-> id, given |-> Len(params),
                            line |-> line, tmpLinenr |-> t, wrapped |-> FALSE]
                      ELSE IF n >= MaxExpansions
                      THEN [err |-> "unfinished", macro |-> id, given |-> Len(params),
                            line |-> line, tmpLinenr |-> t, wrapped |-> FALSE]
                      ELSE expandIdent(Insert(erased, pos1, "$" \o macrocode), pos1,
                                       limits2, t, macros, n + 1)

RECURSIVE CountNewlines(_)
\* "update linenr": the number of newlines in line
CountNewlines(line) ==
    IF line = "" THEN 0
    ELSE (IF At(line, 0) = "\n" THEN 1 ELSE 0) + CountNewlines(SubstrFrom(line, 1))

\* "delete it->second" for the records ids, for the reason why
Release(heap, ids, why) ==
    [i \in 1..Len(heap) |-> IF i \in ids THEN Append(heap[i], why) ELSE heap[i]]

\* the records the pointers of the macro table refer to
Records(ptr) == {ptr[k] : k \in DOMAIN ptr}

\* the record name refers to is overwritten and never deleted
ReplacedRecord_None(ptr, name) == {}

\* "if (it != macros.end()) delete it->second": the record name refers to, if any
ReplacedRecord(ptr, name) == IF name \in DOMAIN ptr THEN {ptr[name]} ELSE {}

\* expandMacros(code, filename, errorLogger) up to its loop
expandMacrosBegin(text, filename) ==
    /\ eistr' = text
    /\ egood' = TRUE
    /\ emacros' = <<>>
    /\ elinenr' = 1
    /\ efilename' = filename
    /\ efileinfo' = <<>>
    /\ eostr' = ""
    /\ eptr' = <<>>
    /\ eheap' = <<>>
    /\ elast' = NoText

\* "the line has been processed in various ways. Now add it to the output stream"
expandMacrosWrite(out) ==
    /\ eostr' = eostr \o out
    /\ elinenr' = elinenr + CountNewlines(out)
    /\ UNCHANGED <<efilename, efileinfo, errors, result, cpc>>

\* "expand macros..": x is what the scan of line ends with
expandMacrosText(line, x) ==
    /\ elast' = [line |-> line, macros |-> emacros, err |-> x.err, macro |-> x.macro,
                 given |-> x.given, out |-> x.line, wrapped |-> x.wrapped]
    /\ IF x.err = "unfinished"
       THEN \* the scan has not come to an end within MaxExpansions expansions
            /\ cpc' = "unfinished"
            /\ UNCHANGED <<emacros, eptr, eheap, errors, result,
                           elinenr, efilename, efileinfo, eostr>>
       ELSE IF x.err # ""
       THEN \* writeError, delete the macros, return ""
            /\ errors' = Append(errors, writeError(efilename, elinenr + x.tmpLinenr, x.err))
            /\ eheap' = Release(eheap, Records(eptr), "error")
            /\ eptr' = <<>>
            /\ emacros' = <<>>
            /\ result' = ""
            /\ cpc' = "error"
            /\ UNCHANGED <<elinenr, efilename, efileinfo, eostr>>
       ELSE /\ expandMacrosWrite(x.line)
            /\ UNCHANGED <<emacros, eptr, eheap>>

\* "defining a macro..": m is the macro made of the text after #define, and
\* replaced the record that m takes the place of
expandMacrosDefine(m, replaced) ==
    /\ IF m.name = "" \/ m.name = "BOOST_FOREACH"
       THEN /\ eheap' = Append(eheap, <<"rejected">>)
            /\ UNCHANGED <<emacros, eptr>>
       ELSE /\ eheap' = Append(Release(eheap, replaced, "replaced"), <<>>)
            /\ eptr' = MapPut(eptr, m.name, Len(eheap) + 1)
            /\ emacros' = MapPut(emacros, m.name, m)
    /\ expandMacrosWrite("\n")
    /\ UNCHANGED elast

\* "undefining a macro.."
expandMacrosUndef(name) ==
    /\ eheap' = Release(eheap, ReplacedRecord(eptr, name), "undef")
    /\ eptr' = MapErase(eptr, name)
    /\ emacros' = MapErase(emacros, name)
    /\ expandMacrosWrite("\n")
    /\ UNCHANGED elast

\* the body of "while (getlines(istr, line))" for the line getlines delivered
expandMacrosLine(line) ==
    IF Compare(line, 8, "#define ")
    THEN expandMacrosDefine(PreprocessorMacro(SubstrFrom(line, 8)),
                            ReplacedRecord(eptr, PreprocessorMacro(SubstrFrom(line, 8)).name))
    ELSE IF Compare(line, 7, "#undef ") THEN expandMacrosUndef(SubstrFrom(line, 7))
    ELSE IF Compare(line, 7, "#file \"")
    THEN /\ efileinfo' = Append(efileinfo, <<elinenr, efilename>>)
         /\ efilename' = Substr(line, 7, Len(line) - 8)
         /\ elinenr' = 0 + CountNewlines(line \o "\n")
         /\ eostr' = eostr \o line \o "\n"
         /\ UNCHANGED <<emacros, eptr, eheap, elast, errors, result, cpc>>
    ELSE IF line = "#endfile" /\ efileinfo # <<>>
    THEN /\ elinenr' = Last(efileinfo)[1] + CountNewlines(line \o "\n")
         /\ efilename' = Last(efileinfo)[2]
         /\ efileinfo' = Front(efileinfo)
         /\ eostr' = eostr \o line \o "\n"
         /\ UNCHANGED <<emacros, eptr, eheap, elast, errors, result, cpc>>
    ELSE IF Compare(line, 1, "#")
    THEN /\ expandMacrosWrite(line \o "\n")
         /\ UNCHANGED <<emacros, eptr, eheap, elast>>
    ELSE expandMacrosText(line, expandScan(line, 0, <<>>, 0, emacros, 0))

\* one turn of "while (getlines(istr, line))": got is what getlines delivers
expandMacrosTurn(got) ==
    /\ eistr' = got.rest
    /\ egood' = got.good
    /\ expandMacrosLine(got.line)

\* one turn of "while (getlines(istr, line))"
expandMacrosChunk == expandMacrosTurn(getlines(eistr))

-----------------------------------------------------------------------------
(* The input of getcode *)

\* the name of the file that is preprocessed
SourceFile == "a.c"

\* the configuration and the settings getcode runs with
CodeSettings ==
    {[cfg |-> "", userDefines |-> "", userUndefs |-> {}],
     [cfg |-> "A", userDefines |-> "A", userUndefs |-> {}],
     [cfg |-> "A=0;B", userDefines |-> "", userUndefs |-> {}],
     [cfg |-> "", userDefines |-> "", userUndefs |-> {"B"}]}

ErrorSettings ==
    {[cfg |-> "", userDefines |-> "", userUndefs |-> {}],
     [cfg |-> "A", userDefines |-> "A", userUndefs |-> {}]}

TextSettings ==
    {[cfg |-> "", userDefines |-> "", userUndefs |-> {}],
     [cfg |-> "A=2", userDefines |-> "", userUndefs |-> {}]}

\* lines of conditional directives, macro definitions and code
CodeMenu ==
    {"#ifdef A", "#ifndef A", "#if B", "#elif B", "#elif !defined(A)", "#else", "#endif",
     "#define A 0", "#define B", "#undef A", "x;"}

\* lines around #error: conditionals, included files, asm blocks
ErrorMenu ==
    {"#ifdef A", "#else", "#endif", "#error", "#pragma asm", "#file \"h\"", "#endfile", "x;"}

\* lines inside an asm block
AsmMenu == {"mov;", "#file \"h\"", "#pragma endasm"}

\* lines of macro definitions and macro uses, some of them over two lines
TextMenu ==
    {"#define A 1", "#define F(x) x+A", "y=F(", "A);", "z=A;", "#ifdef A", "#endif",
     "#pragma asm", "#pragma endasm (a=1)", "c='"}

\* macros that name themselves or each other, calls with too few arguments,
\* definitions that are rejected, replaced and removed
MacroMenu ==
    {"#define A A", "#define A B", "#define B A", "#define F(x) G(x)", "#define G(x) F(x) A",
     "#define F(x,y) x y", "#define V(a,b,...) a b", "#undef A", "#define 1",
     "A;", "F(1);", "V();", "V(1);", "c='"}

-----------------------------------------------------------------------------
(* Actions of getcode and expandMacros *)

InitCode ==
    /\ IncludeIdle
    /\ ReadIdle
    /\ CommentsIdle
    /\ CfgsIdle
    /\ \E s \in CodeSettings :
           /\ userDefines = s.userDefines
           /\ userUndefs = s.userUndefs
           /\ getcodeBegin(s.cfg, SourceFile)

InitError ==
    /\ IncludeIdle
    /\ ReadIdle
    /\ CommentsIdle
    /\ CfgsIdle
    /\ \E s \in ErrorSettings :
           /\ userDefines = s.userDefines
           /\ userUndefs = s.userUndefs
           /\ getcodeBegin(s.cfg, SourceFile)

InitText ==
    /\ IncludeIdle
    /\ ReadIdle
    /\ CommentsIdle
    /\ CfgsIdle
    /\ \E s \in TextSettings :
           /\ userDefines = s.userDefines
           /\ userUndefs = s.userUndefs
           /\ getcodeBegin(s.cfg, SourceFile)

\* getline delivers a line of CodeMenu
GetcodeLine ==
    /\ cpc = "loop"
    /\ nlines < MaxCodeLines
    /\ \E line \in CodeMenu : getcodeLine(line)
    /\ UNCHANGED <<gvars, rvars, mvars, ivars>>

\* getline delivers a line of ErrorMenu
GetcodeErrorLine ==
    /\ cpc = "loop"
    /\ nlines < MaxErrorLines
    /\ \E line \in ErrorMenu : getcodeLine(line)
    /\ UNCHANGED <<gvars, rvars, mvars, ivars>>

\* getline delivers a line of AsmMenu inside the asm block
GetcodeErrorAsmLine ==
    /\ cpc = "asm"
    /\ nlines < MaxErrorLines
    /\ \E line \in AsmMenu : getcodeAsmLine(line)
    /\ UNCHANGED <<gvars, rvars, mvars, ivars>>

\* getline delivers a line of TextMenu
GetcodeTextLine ==
    /\ cpc = "loop"
    /\ nlines < MaxTextLines
    /\ \E line \in TextMenu : getcodeLine(line)
    /\ UNCHANGED <<gvars, rvars, mvars, ivars>>

\* getline delivers a line of TextMenu inside the asm block
GetcodeTextAsmLine ==
    /\ cpc = "asm"
    /\ nlines < MaxTextLines
    /\ \E line \in TextMenu : getcodeAsmLine(line)
    /\ UNCHANGED <<gvars, rvars, mvars, ivars>>

\* getline delivers a line of MacroMenu
GetcodeMacroLine ==
    /\ cpc = "loop"
    /\ nlines < MaxMacroLines
    /\ \E line \in MacroMenu : getcodeLine(line)
    /\ UNCHANGED <<gvars, rvars, mvars, ivars>>

\* getline fails: "return expandMacros(ret.str(), filename, _errorLogger)" begins
GetcodeEof ==
    /\ cpc \in {"loop", "asm"}
    /\ cpc' = "expand"
    /\ expandMacrosBegin(cret, SourceFile)
    /\ UNCHANGED <<userDefines, userUndefs, errors, cfgmap, matching_ifdef, matched_ifdef,
                   cmatch, lineno, filenames, lineNumbers, cret, result,
                   nlines, srcline, srcstack, last, chains, stray>>
    /\ UNCHANGED <<gvars, rvars, mvars, ivars>>

\* getlines delivers the next piece of the text
ExpandMacrosChunk ==
    /\ cpc = "expand"
    /\ egood
    /\ expandMacrosChunk
    /\ UNCHANGED <<userDefines, userUndefs, cfgmap, matching_ifdef, matched_ifdef,
                   cmatch, lineno, filenames, lineNumbers, cret,
                   nlines, srcline, srcstack, last, chains, stray>>
    /\ UNCHANGED <<gvars, rvars, mvars, ivars>>

\* getlines fails: the macros are deleted and ostr.str() is what getcode returns
ExpandMacrosReturn ==
    /\ cpc = "expand"
    /\ ~egood
    /\ eheap' = Release(eheap, Records(eptr), "end")
    /\ eptr' = <<>>
    /\ emacros' = <<>>
    /\ result' = eostr
    /\ cpc' = "done"
    /\ UNCHANGED <<eistr, egood, elinenr, efilename, efileinfo, eostr, elast>>
    /\ UNCHANGED <<userDefines, userUndefs, errors, cfgmap, matching_ifdef, matched_ifdef,
                   cmatch, lineno, filenames, lineNumbers, cret,
                   nlines, srcline, srcstack, last, chains, stray>>
    /\ UNCHANGED <<gvars, rvars, mvars, ivars>>

NextCode == GetcodeLine \/ GetcodeEof \/ ExpandMacrosChunk \/ ExpandMacrosReturn

SpecCode == InitCode /\ [][NextCode]_vars

NextError ==
    GetcodeErrorLine \/ GetcodeErrorAsmLine \/ GetcodeEof \/ ExpandMacrosChunk
    \/ ExpandMacrosReturn

SpecError == InitError /\ [][NextError]_vars

NextText ==
    GetcodeTextLine \/ GetcodeTextAsmLine \/ GetcodeEof \/ ExpandMacrosChunk
    \/ ExpandMacrosReturn

SpecText == InitText /\ [][NextText]_vars

InitMacro ==
    /\ IncludeIdle
    /\ ReadIdle
    /\ CommentsIdle
    /\ CfgsIdle
    /\ userDefines = ""
    /\ userUndefs = {}
    /\ getcodeBegin("", SourceFile)

NextMacro == GetcodeMacroLine \/ GetcodeEof \/ ExpandMacrosChunk \/ ExpandMacrosReturn

SpecMacro == InitMacro /\ [][NextMacro]_vars

-----------------------------------------------------------------------------
(* Claims about getcode *)

C6_OneBranchPerChain ==
    ~stray =>
        \A i \in 1..Len(chains) :
            chains[i].wellformed =>
                /\ chains[i].selected <= 1
                /\ chains[i].else => chains[i].selected = 1

\* the #else of a nested chain with an #elif was read after an earlier branch
\* of the chain had been selected
C6_Witness ==
    /\ ~stray
    /\ Len(chains) = 2
    /\ Last(chains).wellformed
    /\ Last(chains).else
    /\ Last(chains).branches = 3
    /\ last.line = "#else"
    /\ ~Last(matching_ifdef)

\* C7, as stated: "#ifdef N" pushes true exactly when N is a key of the macro
\* map, whatever its value, and "#ifndef N" pushes the negation
C7_IfdefTestsKey ==
    /\ Compare(last.line, 7, "#ifdef ") =>
           /\ Len(matching_ifdef) = last.depth + 1
           /\ Last(matching_ifdef) = (SubstrFrom(last.line, 7) \in DOMAIN last.map)
    /\ Compare(last.line, 8, "#ifndef ") =>
           /\ Len(matching_ifdef) = last.depth + 1
           /\ Last(matching_ifdef) = (SubstrFrom(last.line, 8) \notin DOMAIN last.map)

\* C8, as stated: matching_ifdef and matched_ifdef have the same length after
\* every line; #if, #ifdef and #ifndef push one entry, #endif pops one, and
\* #else and #elif never change the length, stray ones included
C8_StacksInStep ==
    /\ Len(matching_ifdef) = Len(matched_ifdef)
    /\ Compare(last.line, 3, "#if") => Len(matching_ifdef) = last.depth + 1
    /\ Compare(last.line, 6, "#endif") =>
           Len(matching_ifdef) = IF last.depth > 0 THEN last.depth - 1 ELSE 0
    /\ (last.line = "#else" \/ Compare(last.line, 5, "#elif")) =>
           Len(matching_ifdef) = last.depth

\* C9: a #define in a branch that is not selected leaves the macro map as it
\* was and is written as an empty line; a #define that is written lies in a
\* branch all of whose enclosing conditions are selected
C9_DefineOnlyWhenSelected ==
    Compare(last.line, 8, "#define ") =>
        /\ ~last.selected => (cfgmap = last.map /\ last.out = "")
        /\ last.out # "" => last.selected

\* a #define was read in a selected branch nested in a branch that is not selected
C9_Witness ==
    /\ Compare(last.line, 8, "#define ")
    /\ last.depth = 2
    /\ Last(matching_ifdef)
    /\ ~last.selected

\* C10, as stated: a #error in a selected branch, with user-defines in effect,
\* reports one preprocessorErrorDirective at the file and line of the
\* directive and getcode returns the empty string; in a branch that is not
\* selected it does nothing
C10_ErrorDirective ==
    Compare(last.line, 6, "#error") =>
        IF last.selected
        THEN /\ cpc = "error"
             /\ result = ""
             /\ userDefines # "" =>
                    errors = <<ErrorMessage(srcline[1], srcline[2], last.line)>>
        ELSE /\ cpc # "error"
             /\ errors = <<>>

\* C24, as stated: every #file "..." line and every #endfile line that
\* getcode reads is written to ret as it is, and after every line filenames
\* holds the root filename at its bottom and one entry more than lineNumbers
C24_FileLinesKept ==
    cpc \in {"loop", "asm"} =>
        /\ (Compare(last.line, 7, "#file \"") \/ Compare(last.line, 8, "#endfile"))
               => last.out = last.line
        /\ filenames # <<>>
        /\ Head(filenames) = SourceFile
        /\ Len(filenames) = Len(lineNumbers) + 1

\* C25, as stated: a line read while a branch that is not selected is open
\* leaves the macro map as it was
C25_UnselectedLeavesMap ==
    (cpc = "loop" /\ last.line # "" /\ ~last.selected) => cfgmap = last.map

-----------------------------------------------------------------------------
(* Claims about expandMacros *)

RECURSIVE Occurrences(_, _, _)
\* the number of places from pos on where str occurs in line
Occurrences(line, str, pos) ==
    IF Find(line, str, pos) = NPOS THEN 0
    ELSE 1 + Occurrences(line, str, Find(line, str, pos) + 1)

RECURSIVE SkipNewlines(_)
\* the text without the newlines it begins with
SkipNewlines(line) ==
    IF Compare(line, 1, "\n") THEN SkipNewlines(SubstrFrom(line, 1)) ELSE line

\* C12: the scan of a piece of text comes to an end within MaxExpansions
\* expansions whatever the macros name, themselves and each other included,
\* and the use "A;" of the macro "#define A A" leaves one A in the text
C12_ExpansionTerminates ==
    /\ cpc # "unfinished"
    /\ ("A" \in DOMAIN elast.macros /\ SkipNewlines(elast.line) = "A;") =>
           (elast.macros["A"].macro = "A A" => Occurrences(elast.out, "A", 0) = 1)

\* "A;" was expanded with "#define A A" in effect and written to the output
C12_Witness ==
    /\ cpc = "expand"
    /\ eostr = "\n$A;"
    /\ "A" \in DOMAIN elast.macros
    /\ elast.macros["A"].macro = "A A"
    /\ elast.line = "A;"
    /\ elast.out = "$A;"

\* C13: no record is deleted twice, the macro table refers to records that
\* are not deleted, one record for every name, and when expandMacros has
\* returned, at its end or after an error, every record it made is deleted
C13_RecordsReleasedOnce ==
    /\ \A i \in 1..Len(eheap) : Len(eheap[i]) <= 1
    /\ DOMAIN eptr = DOMAIN emacros
    /\ \A k \in DOMAIN eptr : eptr[k] \in 1..Len(eheap) /\ eheap[eptr[k]] = <<>>
    /\ \A k1, k2 \in DOMAIN eptr : eptr[k1] = eptr[k2] => k1 = k2
    /\ cpc \in {"done", "error"} => \A i \in 1..Len(eheap) : Len(eheap[i]) = 1

\* expandMacros has returned after an error, and of the records it made one
\* was replaced by a redefinition and one deleted on the error path
C13_Witness ==
    /\ cpc = "error"
    /\ {eheap[i] : i \in 1..Len(eheap)} = {<<"replaced">>, <<"error">>}

\* the macro that the text expanded last calls at its start, and the number
\* of arguments getparams finds there
CallAt(text, macros) ==
    LET line == SkipNewlines(text)
        id == Substr(line, 0, IdentEnd(line, 0))
    IN  IF id \in DOMAIN macros /\ At(line, IdentEnd(line, 0)) = "("
        THEN [called |-> TRUE, macro |-> macros[id],
              given |-> LET g == getparams(line, IdentEnd(line, 0))
                        IN  IF g.params = <<"">> THEN 0 ELSE Len(g.params)]
        ELSE [called |-> FALSE, macro |-> <<>>, given |-> 0]

\* the call has not the number of arguments the macro is declared with
WrongCount(call) ==
    /\ call.called
    /\ call.macro.params # <<>>
    /\ IF call.macro.variadic THEN call.given < Len(call.macro.params) - 1
       ELSE call.given # Len(call.macro.params)

\* a syntax error was reported, the macro table is empty, "" is returned
SyntaxErrorReturned ==
    /\ elast.err = "syntaxError"
    /\ cpc = "error"
    /\ errors # <<>>
    /\ Last(errors).id = "syntaxError"
    /\ emacros = <<>>
    /\ result = ""

\* C14, as stated: a call with the wrong number of arguments is a syntax error
C14_WrongCountIsSyntaxError ==
    WrongCount(CallAt(elast.line, elast.macros)) => SyntaxErrorReturned

\* C14: a call with the wrong number of arguments to a macro that is not
\* variadic stays in the text as it is and nothing is reported; a syntax
\* error is a call to a variadic macro with fewer arguments than it has
\* parameters before the "...", and then a diagnostic is emitted, the macro
\* table is freed and "" is returned
C14_WrongCountLeftAlone ==
    /\ (WrongCount(CallAt(elast.line, elast.macros))
        /\ ~CallAt(elast.line, elast.macros).macro.variadic) =>
           /\ elast.err = ""
           /\ elast.out = elast.line
           /\ cpc # "error"
    /\ elast.err = "syntaxError" =>
           /\ SyntaxErrorReturned
           /\ elast.macro \in DOMAIN elast.macros
           /\ elast.macros[elast.macro].variadic
           /\ elast.given < Len(elast.macros[elast.macro].params) - 1

\* F(1) was read with "#define F(x,y) x y" in effect and written to the output
C14_Witness ==
    /\ cpc = "expand"
    /\ elast.line = "F(1);"
    /\ "F" \in DOMAIN elast.macros
    /\ Len(elast.macros["F"].params) = 2
    /\ errors = <<>>
    /\ Find(eostr, "F(1);", 0) # NPOS

-----------------------------------------------------------------------------
(* Preprocessor::read: the loop that joins lines ending in a backslash *)

\* the characters of the files read: a letter, the backslash, the line
\* terminators, a space and a tab
ReadAlphabet == {"a", "\\", "\n", "\r", " ", "\t"}

RECURSIVE ReadInputs(_)
\* the files of at most n characters
ReadInputs(n) ==
    IF n = 0 THEN {""}
    ELSE {""} \cup {c \o str : c \in ReadAlphabet, str \in ReadInputs(n - 1)}

\* std::isspace(ch) || std::iscntrl(ch) for the characters of ReadAlphabet
IsSpaceOrCntrl(ch) == ch \in {" ", "\t", "\n", "\r"}

\* what istr.get() returns at the end of the file, as unsigned char
EOFChar == "EOF"

\* static unsigned char readChar(istr): get() fails at the end of the file;
\* the peek() after a '\r' at the end of the file sets eofbit
readChar(rest, good) ==
    IF ~good \/ rest = "" THEN [ch |-> EOFChar, rest |-> rest, good |-> FALSE]
    ELSE IF At(rest, 0) = "\r"
    THEN IF Len(rest) = 1 THEN [ch |-> "\n", rest |-> "", good |-> FALSE]
         ELSE IF At(rest, 1) = "\n" THEN [ch |-> "\n", rest |-> SubstrFrom(rest, 2), good |-> TRUE]
         ELSE [ch |-> "\n", rest |-> SubstrFrom(rest, 1), good |-> TRUE]
    ELSE [ch |-> At(rest, 0), rest |-> SubstrFrom(rest, 1), good |-> TRUE]

\* istr.peek(): the next character; at the end of the file eofbit is set
peek(rest, good) ==
    IF ~good \/ rest = "" THEN [ch |-> EOFChar, rest |-> rest, good |-> FALSE]
    ELSE [ch |-> At(rest, 0), rest |-> rest, good |-> good]

RECURSIVE SkipSpaces(_, _)
\* "gcc-compatibility: ignore spaces": the stream at the first character
\* after the backslash that is a line terminator or no space, with chNext
SkipSpaces(rest, good) ==
    LET next == peek(rest, good)
    IN  IF next.ch # EOFChar /\ next.ch # "\n" /\ next.ch # "\r" /\ IsSpaceOrCntrl(next.ch)
        THEN SkipSpaces(readChar(rest, good).rest, readChar(rest, good).good)
        ELSE next

\* newlines times '\n'
NewlineString(n) == JoinSeq([k \in 1..n |-> "\n"], "")

\* the loop body for a backslash: next is the stream with chNext
readBackslash(next) ==
    IF next.ch = "\n" \/ next.ch = "\r"
    THEN /\ rnewlines' = rnewlines + 1
         /\ rcode' = rcode
         /\ rin' = readChar(readChar(next.rest, next.good).rest,
                            readChar(next.rest, next.good).good).rest
         /\ rgood' = readChar(readChar(next.rest, next.good).rest,
                              readChar(next.rest, next.good).good).good
         /\ rch' = readChar(readChar(next.rest, next.good).rest,
                            readChar(next.rest, next.good).good).ch
    ELSE /\ rnewlines' = rnewlines
         /\ rcode' = rcode \o "\\"
         /\ rin' = readChar(next.rest, next.good).rest
         /\ rgood' = readChar(next.rest, next.good).good
         /\ rch' = readChar(next.rest, next.good).ch

\* the loop body for every other character, after
\* "Replace assorted special chars with spaces.."
readOther(ch) ==
    /\ rcode' = rcode \o ch \o (IF ch = "\n" THEN NewlineString(rnewlines) ELSE "")
    /\ rnewlines' = IF ch = "\n" THEN 0 ELSE rnewlines
    /\ rin' = readChar(rin, rgood).rest
    /\ rgood' = readChar(rin, rgood).good
    /\ rch' = readChar(rin, rgood).ch

\* read(istr, filename) up to the first test of its loop
readBegin(input, build) ==
    /\ rpc = "loop"
    /\ gnuc = build
    /\ rinput = input
    /\ rin = readChar(input, TRUE).rest
    /\ rgood = readChar(input, TRUE).good
    /\ rch = readChar(input, TRUE).ch
    /\ rcode = ""
    /\ rnewlines = 0

\* one turn of "for (unsigned char ch = readChar(istr); istr.good(); ch = readChar(istr))"
readTurn ==
    IF rch = "\\"
    THEN readBackslash(IF gnuc THEN SkipSpaces(rin, rgood) ELSE peek(rin, rgood))
    ELSE readOther(IF rch # "\n" /\ IsSpaceOrCntrl(rch) THEN " " ELSE rch)

InitRead ==
    /\ IncludeIdle
    /\ CommentsIdle
    /\ CfgsIdle
    /\ CodeIdle
    /\ \E input \in ReadInputs(MaxReadLen) : \E build \in BOOLEAN : readBegin(input, build)

\* istr.good() holds: the loop body runs for ch
ReadTurn ==
    /\ rpc = "loop"
    /\ rgood
    /\ readTurn
    /\ UNCHANGED <<rpc, gnuc, rinput>>
    /\ UNCHANGED <<gvars, cvars, evars, mvars, ivars>>

\* istr.good() fails: the loop is left, "std::string result = code.str()"
ReadEnd ==
    /\ rpc = "loop"
    /\ ~rgood
    /\ rpc' = "done"
    /\ UNCHANGED <<gnuc, rinput, rin, rgood, rch, rcode, rnewlines>>
    /\ UNCHANGED <<gvars, cvars, evars, mvars, ivars>>

NextRead == ReadTurn \/ ReadEnd

SpecRead == InitRead /\ [][NextRead]_vars

RECURSIVE LineTerminators(_)
\* the number of line terminators of a text: "\r\n", "\n" and "\r"
LineTerminators(text) ==
    IF text = "" THEN 0
    ELSE IF Compare(text, 2, "\r\n") THEN 1 + LineTerminators(SubstrFrom(text, 2))
    ELSE IF At(text, 0) = "\n" \/ At(text, 0) = "\r" THEN 1 + LineTerminators(SubstrFrom(text, 1))
    ELSE LineTerminators(SubstrFrom(text, 1))

\* C15, as stated: for every file, with or without a final newline, the text
\* the loop of read produces has as many '\n' as the file has line
\* terminators, those after a backslash included
C15_NewlinesPreserved == rpc = "done" => CountNewlines(rcode) = LineTerminators(rinput)

-----------------------------------------------------------------------------
(* The files that #include lines name *)

RECURSIVE FindLastOf(_, _, _)
\* s.find_last_of(chars), searched from position from downwards
FindLastOf(s, chars, from) ==
    IF from < 0 THEN NPOS
    ELSE IF At(s, from) \in chars THEN from
    ELSE FindLastOf(s, chars, from - 1)

\* "filePath.substr(0, 1 + filePath.find_last_of("\\/"))": the directory of a file
PathOf(filePath) == Substr(filePath, 0, 1 + FindLastOf(filePath, {"\\", "/"}, Len(filePath) - 1))

RECURSIVE ReplaceChar(_, _, _)
\* std::replace(begin, end, from, to)
ReplaceChar(s, from, to) ==
    IF s = "" THEN ""
    ELSE (IF At(s, 0) = from THEN to ELSE At(s, 0)) \o ReplaceChar(SubstrFrom(s, 1), from, to)

\* Path::toNativeSeparators where the separator is '/'
toNativeSeparators(path) == ReplaceChar(path, "\\", "/")

UpperCase == "ABCDEFGHIJKLMNOPQRSTUVWXYZ"
LowerCase == "abcdefghijklmnopqrstuvwxyz"

\* tolowerWrapper
tolower(ch) ==
    IF \E i \in 1..26 : SubSeq(UpperCase, i, i) = ch
    THEN LET i == CHOOSE i \in 1..26 : SubSeq(UpperCase, i, i) = ch IN SubSeq(LowerCase, i, i)
    ELSE ch

RECURSIVE ToLower(_)
\* std::transform(begin, end, begin, tolowerWrapper)
ToLower(s) == IF s = "" THEN "" ELSE tolower(At(s, 0)) \o ToLower(SubstrFrom(s, 1))

RECURSIVE SimplifyParts(_, _)
\* the names of a path without "." and without "name/.."
SimplifyParts(parts, done) ==
    IF parts = <<>> THEN done
    ELSE IF Head(parts) = "." THEN SimplifyParts(Tail(parts), done)
    ELSE IF Head(parts) = ".." /\ done # <<>> /\ Last(done) # ".."
    THEN SimplifyParts(Tail(parts), Front(done))
    ELSE SimplifyParts(Tail(parts), Append(done, Head(parts)))

\* Path::simplifyPath
simplifyPath(path) == JoinSeq(SimplifyParts(SplitAt(path, "/"), <<>>), "/")

\* the file a path leads to: the file system follows "." and ".."
FileOf(path) == simplifyPath(path)

\* fin.open(path); fin.is_open()
Opens(path) == FileOf(path) \in DOMAIN disk

\* Preprocessor::read(fin, filename) for a header that was opened
readHeader(filename) == disk[FileOf(filename)]

\* the lines std::getline delivers from a text
Lines(text) ==
    IF text = "" THEN <<>>
    ELSE IF Last(SplitAt(text, "\n")) = "" THEN Front(SplitAt(text, "\n"))
    ELSE SplitAt(text, "\n")

\* Preprocessor::getHeaderFileName
getHeaderFileName(str) ==
    LET i == FindFirstOf(str, {"<", "\""}, 0)
        c == IF At(str, i) = "<" THEN ">" ELSE At(str, i)
        e == FindFirstOf(str, {c}, i + 1)
        inner == IF e = NPOS THEN SubstrFrom(str, i + 1) ELSE Substr(str, i + 1, e - i - 1)
    IN  IF i = NPOS THEN [type |-> "NoHeader", name |-> ""]
        ELSE [type |-> IF c = "\"" THEN "UserHeader" ELSE "SystemHeader",
              name |-> ReplaceChar(inner, "\\", "/")]

\* the include directories are searched and nothing before them
HeaderLocations_DirsOnly(paths) == paths

\* "includePaths2(includePaths); includePaths2.push_front("")"
HeaderLocations(paths) == <<"">> \o paths

\* the paths openHeader tries to open, in their order
Candidates(filename, paths, filePath) ==
    [i \in 1..Len(HeaderLocations(paths)) |->
        toNativeSeparators(HeaderLocations(paths)[i]) \o filename]
    \o <<filePath \o filename>>

\* static bool openHeader(filename, includePaths, filePath, fin): the paths
\* tried up to the one that opens, and filename afterwards
openHeaderAmong(filename, cands) ==
    IF \E i \in 1..Len(cands) : Opens(cands[i])
    THEN LET k == CHOOSE i \in 1..Len(cands) :
                      Opens(cands[i]) /\ \A j \in 1..(i - 1) : ~Opens(cands[j])
         IN  [opened |-> TRUE, filename |-> cands[k], tried |-> SubSeq(cands, 1, k)]
    ELSE [opened |-> FALSE, filename |-> filename, tried |-> cands]

openHeader(filename, paths, filePath) ==
    openHeaderAmong(filename, Candidates(filename, paths, filePath))

\* Preprocessor::missingInclude: the message handed to the error logger
MissingIncludeMessage(filename, linenr, header, userheader) ==
    [id |-> IF userheader THEN "missingInclude" ELSE "debug",
     loc |-> IF filename # "" THEN <<filename, linenr>> ELSE <<>>,
     msg |-> header]

\* "headerType == UserHeader || _settings->debugwarnings" without the user headers
Reportable_DebugOnly(type) == isettings.debugwarnings

\* "_settings && (headerType == UserHeader || _settings->debugwarnings)"
Reportable(type) == isettings.present /\ (type = "UserHeader" \/ isettings.debugwarnings)

\* "!_settings->nomsg.isSuppressed("missingInclude", "", 0)"
NotSuppressed == ~isettings.suppressed

-----------------------------------------------------------------------------
(* Preprocessor::handleIncludes(code, filePath, includePaths, defs, includes) *)

\* unsigned int: 0 - 1 is UINT_MAX, written -1 here; UINT_MAX + 1 is 0
UGreater(a, b) == IF a < 0 THEN b >= 0 ELSE IF b < 0 THEN FALSE ELSE a > b

\* the locals of a call of handleIncludes for the text of the file filePath
NewCall(text, filePath, includes) ==
    [filePath |-> filePath, lines |-> Lines(text), linenr |-> 0, indent |-> 0,
     indentmatch |-> 0, elseIsTrue |-> TRUE, suppress |-> FALSE,
     includes |-> includes, ostr |-> ""]

\* the end of the #ifdef, #ifndef and #if branches: "++indent; if (indent ==
\* indentmatch + 1) elseIsTrue = true"
Indented(f) ==
    IF f.indent + 1 = f.indentmatch + 1
    THEN [f EXCEPT !.indent = @ + 1, !.elseIsTrue = TRUE]
    ELSE [f EXCEPT !.indent = @ + 1]

\* #ifdef, #ifndef, #if: taken says that the condition holds, undef that the
\* tag is one of the undefs
OpenBranch(f, taken, undef, elseUndef, suppressUndef) ==
    IF f.indent # f.indentmatch THEN Indented(f)
    ELSE IF taken
    THEN Indented([f EXCEPT !.elseIsTrue = FALSE, !.indentmatch = @ + 1])
    ELSE IF undef
    THEN Indented([f EXCEPT !.elseIsTrue = elseUndef, !.indentmatch = @ + 1,
                            !.suppress = suppressUndef])
    ELSE Indented(f)

\* the end of the #elif / #else branch: "if (suppressCurrentCodePath) .."
Unsuppressed(f) ==
    IF f.suppress THEN [f EXCEPT !.suppress = FALSE, !.indentmatch = f.indent] ELSE f

\* #elif, #else: taken says that the line is #else or that its condition holds
ElseBranchOf(f, taken) ==
    IF f.indentmatch = f.indent THEN Unsuppressed([f EXCEPT !.indentmatch = f.indent - 1])
    ELSE IF f.elseIsTrue /\ f.indentmatch = f.indent - 1 /\ taken
    THEN Unsuppressed([f EXCEPT !.indentmatch = f.indent, !.elseIsTrue = FALSE])
    ELSE Unsuppressed(f)

\* #endif
EndBranch(f) ==
    LET indent == IF f.indent > 0 THEN f.indent - 1 ELSE f.indent
    IN  IF UGreater(f.indentmatch, indent) \/ indent = 0
        THEN [f EXCEPT !.indent = indent, !.indentmatch = indent, !.elseIsTrue = FALSE,
                       !.suppress = FALSE]
        ELSE [f EXCEPT !.indent = indent]

\* the line is one of the conditional directives the loop handles first
IsConditional(line, suppress) ==
    \/ Compare(line, 7, "#ifdef ")
    \/ Compare(line, 8, "#ifndef ")
    \/ (~suppress /\ Compare(line, 4, "#if "))
    \/ Compare(line, 6, "#elif ")
    \/ Compare(line, 5, "#else")
    \/ Compare(line, 6, "#endif")

\* the locals after a conditional directive
ConditionalAfter(f, defs, undefs, line) ==
    IF Compare(line, 7, "#ifdef ")
    THEN OpenBranch(f, getdef(line, TRUE) \in DOMAIN defs, getdef(line, TRUE) \in undefs,
                    TRUE, TRUE)
    ELSE IF Compare(line, 8, "#ifndef ")
    THEN OpenBranch(f, getdef(line, FALSE) \notin DOMAIN defs, getdef(line, FALSE) \in undefs,
                    FALSE, FALSE)
    ELSE IF Compare(line, 4, "#if ")
    THEN OpenBranch(f, f.indent = f.indentmatch /\ match_cfg_def(defs, SubstrFrom(line, 4)),
                    FALSE, FALSE, FALSE)
    ELSE IF Compare(line, 6, "#elif ")
    THEN ElseBranchOf(f, f.elseIsTrue /\ f.indentmatch = f.indent - 1
                         /\ match_cfg_def(defs, SubstrFrom(line, 6)))
    ELSE IF Compare(line, 5, "#else") THEN ElseBranchOf(f, TRUE)
    ELSE EndBranch(f)

\* "define a symbol", "define a function-macro", "define value": tag and value
DefineTag(line) ==
    IF FindFirstOf(line, {"(", " "}, 8) = NPOS THEN SubstrFrom(line, 8)
    ELSE Substr(line, 8, FindFirstOf(line, {"(", " "}, 8) - 8)

DefineValue(line, defs) ==
    LET endOfTag == FindFirstOf(line, {"(", " "}, 8)
        value == SubstrFrom(line, endOfTag + 1)
    IN  IF endOfTag = NPOS \/ At(line, endOfTag) = "(" THEN ""
        ELSE IF value \in DOMAIN defs THEN defs[value] ELSE value

\* defs after a #define or #undef line in a branch that is taken
DefsAfter(defs, undefs, line) ==
    IF Compare(line, 8, "#define ")
    THEN IF DefineTag(line) \in undefs THEN MapErase(defs, DefineTag(line))
         ELSE MapPut(defs, DefineTag(line), DefineValue(line, defs))
    ELSE IF Compare(line, 7, "#undef ") THEN MapErase(defs, SubstrFrom(line, 7))
    ELSE defs

\* the paths of the files of the open calls, the outermost first
ChainOf(stack) == [i \in 1..Len(stack) |-> stack[i].filePath]

\* the call f has read a line: the locals are put back
Continue(f) == istack' = SetLast(istack, f)

\* "#include " in a branch that is taken: h is the header named, o what
\* openHeader found
includeFound(f, line, h, o) ==
    /\ ilast' = [line |-> line, type |-> h.type, name |-> h.name,
                 dir |-> IF h.type = "UserHeader" THEN PathOf(f.filePath) ELSE "",
                 tried |-> o.tried, opened |-> o.opened, resolved |-> o.filename,
                 chain |-> ChainOf(istack),
                 spliced |-> o.opened /\ o.filename \notin Range(f.includes),
                 flag |-> missingIncludeFlag]
    /\ IF ~o.opened
       THEN /\ missingIncludeFlag' = (missingIncludeFlag \/ (Reportable(h.type) /\ NotSuppressed))
            /\ ierrors' = IF Reportable(h.type) /\ NotSuppressed
                          THEN Append(ierrors,
                                      MissingIncludeMessage(toNativeSeparators(f.filePath),
                                                            f.linenr, o.filename,
                                                            h.type = "UserHeader"))
                          ELSE ierrors
            /\ Continue([f EXCEPT !.ostr = @ \o "\n"])
       ELSE /\ UNCHANGED <<missingIncludeFlag, ierrors>>
            /\ IF o.filename \in Range(f.includes)
               THEN \* "Prevent that files are recursively included"
                    Continue([f EXCEPT !.ostr = @ \o "\n"])
               ELSE istack' = Append(SetLast(istack,
                                             [f EXCEPT !.includes = Append(@, o.filename),
                                                       !.ostr = @ \o "#file \"" \o o.filename
                                                                  \o "\"\n"]),
                                     NewCall(readHeader(o.filename), o.filename,
                                             Append(f.includes, o.filename)))

\* "#include " in a branch that is taken: h is the header the line names
includeLine(f, line, h) ==
    IF h.type = "NoHeader"
    THEN /\ Continue([f EXCEPT !.ostr = @ \o "\n"])
         /\ UNCHANGED <<missingIncludeFlag, ierrors, ilast>>
    ELSE includeFound(f, line, h,
                      openHeader(h.name, includePaths,
                                 IF h.type = "UserHeader" THEN PathOf(f.filePath) ELSE ""))

\* the body of "while (std::getline(istr,line))" after "++linenr", f being
\* the locals of the call
handleIncludesLine(f, line) ==
    IF IsConditional(line, f.suppress)
    THEN /\ Continue([ConditionalAfter(f, idefs, isettings.userUndefs, line)
                        EXCEPT !.ostr = @ \o "\n"])
         /\ UNCHANGED <<idefs, missingIncludeFlag, ierrors, ilast>>
    ELSE IF f.indentmatch # f.indent \/ f.suppress
    THEN /\ Continue([f EXCEPT !.ostr = @ \o "\n"])
         /\ UNCHANGED <<idefs, missingIncludeFlag, ierrors, ilast>>
    ELSE IF Compare(line, 9, "#include ")
    THEN /\ includeLine(f, line, getHeaderFileName(SubstrFrom(line, 9)))
         /\ UNCHANGED idefs
    ELSE /\ idefs' = DefsAfter(idefs, isettings.userUndefs, line)
         /\ ierrors' = IF Compare(line, 7, "#error ")
                       THEN Append(ierrors, ErrorMessage(f.filePath, f.linenr, SubstrFrom(line, 7)))
                       ELSE ierrors
         /\ Continue([f EXCEPT !.ostr = @ \o line \o "\n"])
         /\ UNCHANGED <<missingIncludeFlag, ilast>>

\* std::getline has delivered line to the innermost call
handleIncludesTurn(f, line, rest) ==
    handleIncludesLine([f EXCEPT !.linenr = @ + 1, !.lines = rest], line)

\* "return ostr.str()" of a call made for a header: the call that included
\* it writes the text, std::endl and "#endfile\n"
handleIncludesReturn(callee, caller) ==
    istack' = SetLast(Front(istack),
                      [caller EXCEPT !.ostr = @ \o callee.ostr \o "\n" \o "#endfile\n"])

-----------------------------------------------------------------------------
(* The input of handleIncludes *)

\* the headers on the disk and the include directories: a header that
\* includes itself, two that include each other, a header that includes
\* itself by another spelling of its path, a header in the current directory
\* and in an include directory, a header in a directory of its own, and two
\* headers whose names differ in the case of a letter
Worlds ==
    {[disk |-> [n \in {"a.h", "b.h"} |->
                   IF n = "a.h" THEN "#include \"a.h\"\nx;\n" ELSE "#include \"a.h\"\ny;\n"],
      includePaths |-> <<>>],
     [disk |-> [n \in {"a.h", "b.h"} |->
                   IF n = "a.h" THEN "#include \"b.h\"\nx;\n" ELSE "#include \"a.h\"\ny;\n"],
      includePaths |-> <<>>],
     [disk |-> [n \in {"a.h", "b.h"} |->
                   IF n = "a.h" THEN "#include \"./a.h\"\nx;\n" ELSE "y;\n"],
      includePaths |-> <<>>],
     [disk |-> [n \in {"a.h", "inc/a.h", "inc/b.h", "inc/s.h"} |->
                   IF n = "a.h" THEN "x;\n"
                   ELSE IF n = "inc/a.h" THEN "i;\n"
                   ELSE IF n = "inc/b.h" THEN "#include \"a.h\"\ny;\n"
                   ELSE "s;\n"],
      includePaths |-> <<"inc/">>],
     [disk |-> [n \in {"d/a.h", "b.h"} |->
                   IF n = "d/a.h" THEN "#include \"../d/a.h\"\nx;\n" ELSE ""],
      includePaths |-> <<>>],
     [disk |-> [n \in {"a.h", "A.h", "b.h"} |->
                   IF n = "a.h" THEN "#include \"A.h\"\nx;\n"
                   ELSE IF n = "A.h" THEN "z;\n"
                   ELSE "#include \"a.h\"\ny;\n"],
      includePaths |-> <<>>]}

\* the settings: the usual ones, with debugwarnings, with missingInclude
\* suppressed and A undefined by the user, and no settings at all
IncludeSettings ==
    {[present |-> TRUE, debugwarnings |-> FALSE, suppressed |-> FALSE,
      checkConfiguration |-> TRUE, userUndefs |-> {}],
     [present |-> TRUE, debugwarnings |-> TRUE, suppressed |-> FALSE,
      checkConfiguration |-> TRUE, userUndefs |-> {}],
     [present |-> TRUE, debugwarnings |-> FALSE, suppressed |-> TRUE,
      checkConfiguration |-> FALSE, userUndefs |-> {"A"}],
     [present |-> FALSE, debugwarnings |-> FALSE, suppressed |-> FALSE,
      checkConfiguration |-> FALSE, userUndefs |-> {}]}

\* the lines of the source file: #include lines for headers that are there
\* and that are missing, conditionals, a #define
IncludeMenu ==
    {"#include \"a.h\"", "#include \"b.h\"", "#include \"d/a.h\"", "#include <s.h>",
     "#include \"m.h\"", "#include A", "#ifdef A", "#else", "#endif", "#define A", "x;"}

-----------------------------------------------------------------------------
(* Actions of handleIncludes(code, filePath, includePaths, defs, includes) *)

\* the files, the settings and the flag that an earlier run may have set
IncludeWorld ==
    /\ \E w \in Worlds : disk = w.disk /\ includePaths = w.includePaths
    /\ isettings \in IncludeSettings
    /\ missingIncludeFlag \in BOOLEAN
    /\ ierrors = <<>>
    /\ ilast = NoLookup

InitInclude ==
    /\ CfgsIdle
    /\ CodeIdle
    /\ ReadIdle
    /\ CommentsIdle
    /\ IncludeWorld
    /\ ipc = "run"
    /\ idefs = <<>>
    /\ istack = <<NewCall("", SourceFile, <<>>)>>
    /\ inlines = 0
    /\ iresult = ""
    /\ icode = ""
    /\ ipos = 0
    /\ iendfilePos = 0
    /\ ipaths = <<>>
    /\ handledFiles = {}

\* std::getline delivers a line of the source file
HandleIncludesLine ==
    /\ ipc = "run"
    /\ Len(istack) = 1
    /\ inlines < MaxIncludeLines
    /\ inlines' = inlines + 1
    /\ \E line \in IncludeMenu : handleIncludesTurn(Last(istack), line, <<>>)
    /\ Len(istack') <= MaxIncludeDepth
    /\ UNCHANGED <<disk, includePaths, isettings, ipc, iresult,
                   icode, ipos, iendfilePos, ipaths, handledFiles>>
    /\ UNCHANGED <<gvars, cvars, evars, rvars, mvars>>

\* std::getline delivers a line of a header
HandleIncludesHeaderLine ==
    /\ ipc = "run"
    /\ Len(istack) > 1
    /\ Last(istack).lines # <<>>
    /\ handleIncludesTurn(Last(istack), Head(Last(istack).lines), Tail(Last(istack).lines))
    /\ Len(istack') <= MaxIncludeDepth
    /\ UNCHANGED <<disk, includePaths, isettings, ipc, iresult, inlines,
                   icode, ipos, iendfilePos, ipaths, handledFiles>>
    /\ UNCHANGED <<gvars, cvars, evars, rvars, mvars>>

\* std::getline fails in the call made for a header
HandleIncludesHeaderReturn ==
    /\ ipc = "run"
    /\ Len(istack) > 1
    /\ Last(istack).lines = <<>>
    /\ handleIncludesReturn(Last(istack), istack[Len(istack) - 1])
    /\ UNCHANGED <<disk, includePaths, isettings, missingIncludeFlag, ierrors, ipc, idefs,
                   iresult, inlines, icode, ipos, iendfilePos, ipaths, handledFiles, ilast>>
    /\ UNCHANGED <<gvars, cvars, evars, rvars, mvars>>

\* std::getline fails in the outermost call
HandleIncludesEof ==
    /\ ipc = "run"
    /\ Len(istack) = 1
    /\ ipc' = "done"
    /\ iresult' = Last(istack).ostr
    /\ UNCHANGED <<disk, includePaths, isettings, missingIncludeFlag, ierrors, idefs,
                   istack, inlines, icode, ipos, iendfilePos, ipaths, handledFiles, ilast>>
    /\ UNCHANGED <<gvars, cvars, evars, rvars, mvars>>

NextInclude ==
    HandleIncludesLine \/ HandleIncludesHeaderLine \/ HandleIncludesHeaderReturn
    \/ HandleIncludesEof

SpecInclude == InitInclude /\ [][NextInclude]_vars

-----------------------------------------------------------------------------
(* Claims about handleIncludes(code, filePath, includePaths, defs, includes) *)

\* C11, as stated: handleIncludes comes to an end whatever the headers
\* include, and no header is spliced inside its own inclusion chain: the
\* files of the open calls are different files, so there are never more open
\* calls than files
C11_NoSpliceInsideItself ==
    /\ \A i, j \in 1..Len(istack) :
           i < j => FileOf(istack[i].filePath) # FileOf(istack[j].filePath)
    /\ Len(istack) <= Cardinality(DOMAIN disk) + 1

\* the paths of a chain, in lower case
LowerChain(chain) == {ToLower(chain[i]) : i \in 1..Len(chain)}

\* C18, as stated: an #include in a branch that is taken whose header opens is
\* skipped exactly when the path of the header, compared without regard to
\* case, is on the chain of the open calls
C18_SkippedIffOnChain ==
    (ilast.line # "" /\ ilast.opened) =>
        (~ilast.spliced <=> ToLower(ilast.resolved) \in LowerChain(ilast.chain))

\* the places the claim names for a header: the include directories in
\* their order, then the directory of the including file
ClaimedPlaces(name, dir) == [i \in 1..Len(includePaths) |-> includePaths[i] \o name] \o <<dir \o name>>

\* the places where a header is looked for: as it is written, in the include
\* directories in their order, in the directory of the including file
Places(name, dir) == <<name>> \o ClaimedPlaces(name, dir)

\* the lookup handled last opened the first of the places that can be opened;
\* the resolved path is that place, simplified where the include clauses are
\* enumerated (the list of directories is kept there and nowhere else)
FirstOf(places) ==
    /\ ilast.opened <=> \E i \in 1..Len(places) : Opens(places[i])
    /\ ilast.opened =>
           \E i \in 1..Len(places) :
               /\ ilast.resolved = IF ipaths # <<>> THEN simplifyPath(places[i])
                                   ELSE places[i]
               /\ Opens(places[i])
               /\ \A j \in 1..(i - 1) : ~Opens(places[j])

\* C19, as stated: the lookup tries the include directories in their order
\* and after them the directory of the including file, nothing before them,
\* and the first place where the file opens is the resolved path
C19_DirsThenOwnDir == ilast.line # "" => FirstOf(ClaimedPlaces(ilast.name, ilast.dir))

\* C19: the lookup tries the name as it is written first, then the include
\* directories in their order, then the directory of the including file
\* (the empty one for a system header), and the first place where the file
\* opens is the resolved path
C19_NameThenDirsThenOwnDir == ilast.line # "" => FirstOf(Places(ilast.name, ilast.dir))

\* "a.h" was looked up with "inc/" as include directory, where there is an
\* a.h, and the a.h of the current directory was opened
C19_Witness ==
    /\ ilast.name = "a.h"
    /\ includePaths = <<"inc/">>
    /\ Opens("inc/a.h")
    /\ ilast.opened
    /\ ilast.resolved = "a.h"

\* the header handled last was not found and is one that is reported
ReportedMissing(type) ==
    /\ isettings.present
    /\ type = "UserHeader" \/ isettings.debugwarnings
    /\ ~isettings.suppressed

\* C20, as stated: the flag is true after every lookup that failed
C20_FlagAfterEveryFailure == (ilast.line # "" /\ ~ilast.opened) => missingIncludeFlag

\* C20: after a lookup that failed the flag is true if there are settings,
\* the header is a user header or debugwarnings is on, and missingInclude is
\* not suppressed; otherwise it is what it was; and no step makes it false
C20_FlagSetAndKept ==
    /\ [](ilast.line # "" =>
            missingIncludeFlag = (ilast.flag \/ (~ilast.opened /\ ReportedMissing(ilast.type))))
    /\ [][missingIncludeFlag => missingIncludeFlag']_vars

\* the lookup of a system header failed with debugwarnings on and set the flag
C20_Witness ==
    /\ ilast.type = "SystemHeader"
    /\ ~ilast.opened
    /\ isettings.debugwarnings
    /\ ~ilast.flag
    /\ missingIncludeFlag

-----------------------------------------------------------------------------
(* Preprocessor::handleIncludes(code, filePath, includePaths) *)

RECURSIVE PopEndfiles(_, _, _, _)
\* "If endfile is encountered, we have moved to a next file in our stack, so
\* remove last path in our list."
PopEndfiles(paths, text, endfilePos, pos) ==
    LET e == Find(text, "\n#endfile", endfilePos)
    IN  IF e # NPOS /\ e < pos THEN PopEndfiles(Front(paths), text, e + 9, pos)
        ELSE paths

\* "code.substr(pos, end - pos)" with end = code.find("\n", pos)
ClauseAt(text, pos) ==
    IF Find(text, "\n", pos) = NPOS THEN SubstrFrom(text, pos)
    ELSE Substr(text, pos, Find(text, "\n", pos) - pos)

\* "Remove #include clause"
WithoutClause(text, pos) ==
    IF Find(text, "\n", pos) = NPOS THEN Substr(text, 0, pos)
    ELSE Erase(text, pos, Find(text, "\n", pos) - pos)

RECURSIVE IncludeLocation(_, _, _, _, _, _)
\* "Determine line number of include": the file and the line of the clause
\* that was at pos, found by going back from pos
IncludeLocation(text, pos, p, linenr, level, f) ==
    IF p > pos THEN [file |-> f, linenr |-> linenr]
    ELSE IF level = 0 /\ At(text, pos - p) = "\n"
    THEN IncludeLocation(text, pos, p + 1, linenr + 1, level, f)
    ELSE IF Substr(text, pos - p, 9) = "#endfile\n"
    THEN IncludeLocation(text, pos, p + 1, linenr, level + 1, f)
    ELSE IF Substr(text, pos - p, 6) = "#file "
    THEN IF level = 0
         THEN LET pos1 == pos - p + 7
                  pos2 == FindFirstOf(text, {"\"", "\n"}, pos1)
              IN  [file |-> IF pos2 = NPOS THEN SubstrFrom(text, pos1)
                            ELSE Substr(text, pos1, pos2 - pos1),
                   linenr |-> linenr - 1]
         ELSE IncludeLocation(text, pos, p + 1, linenr, level - 1, f)
    ELSE IncludeLocation(text, pos, p + 1, linenr, level, f)

\* no file counts as handled
AlreadyHandled_Never(tempFile, handled) == FALSE

\* "handledFiles.find(tempFile) != handledFiles.end()"
AlreadyHandled(tempFile, handled) == tempFile \in handled

\* "#file "filename"", the text of the header, "#endfile"
Spliced(filename, processedFile) ==
    "#file \"" \o filename \o "\"\n" \o processedFile \o "\n#endfile"

\* the end of a turn that leaves the flag and the error logger alone
enumContinue(pos, paths, text) ==
    /\ icode' = text
    /\ ipos' = pos
    /\ iendfilePos' = pos
    /\ ipaths' = paths

\* the header was opened: filename is its simplified path, splice is to be made
enumOpened(pos, paths, text, filename, splice) ==
    /\ handledFiles' = IF splice THEN handledFiles \cup {ToLower(filename)} ELSE handledFiles
    /\ IF splice /\ readHeader(filename) # ""
       THEN enumContinue(pos, Append(paths, PathOf(filename)),
                         Insert(text, pos, Spliced(filename, readHeader(filename))))
       ELSE enumContinue(pos, paths, text)
    /\ UNCHANGED <<missingIncludeFlag, ierrors>>

\* the header was not opened: at is the file and the line of the clause
enumMissing(pos, paths, text, h, at) ==
    /\ missingIncludeFlag' = (missingIncludeFlag \/ (Reportable(h.type) /\ NotSuppressed))
    /\ ierrors' = IF Reportable(h.type) /\ isettings.checkConfiguration /\ NotSuppressed
                  THEN Append(ierrors,
                              MissingIncludeMessage(toNativeSeparators(at.file), at.linenr,
                                                    h.name, h.type = "UserHeader"))
                  ELSE ierrors
    /\ enumContinue(pos, paths, text)
    /\ UNCHANGED handledFiles

\* the clause names the header h and o is what openHeader found
enumLookup(pos, paths, text, h, o) ==
    /\ ilast' = [line |-> ClauseAt(icode, pos), type |-> h.type, name |-> h.name,
                 dir |-> IF h.type = "UserHeader" THEN Last(paths) ELSE "",
                 tried |-> o.tried, opened |-> o.opened,
                 resolved |-> IF o.opened THEN simplifyPath(o.filename) ELSE o.filename,
                 chain |-> paths,
                 spliced |-> /\ o.opened
                             /\ ~AlreadyHandled(ToLower(simplifyPath(o.filename)), handledFiles)
                             /\ readHeader(o.filename) # "",
                 flag |-> missingIncludeFlag]
    /\ IF o.opened
       THEN enumOpened(pos, paths, text, simplifyPath(o.filename),
                       ~AlreadyHandled(ToLower(simplifyPath(o.filename)), handledFiles))
       ELSE enumMissing(pos, paths, text, h, IncludeLocation(text, pos, 1, 1, 0, SourceFile))

\* the clause at pos is at the start of a line: paths is the list of
\* directories after the #endfile lines passed, text the code without the clause
enumClause(pos, paths, text, h) ==
    IF h.type = "NoHeader"
    THEN /\ enumContinue(pos, paths, text)
         /\ UNCHANGED <<handledFiles, missingIncludeFlag, ierrors, ilast>>
    ELSE enumLookup(pos, paths, text, h,
                    openHeader(h.name, includePaths,
                               IF h.type = "UserHeader" THEN Last(paths) ELSE ""))

\* one turn of "while ((pos = code.find("#include", pos)) != std::string::npos)"
enumTurn(pos) ==
    IF pos > 0 /\ At(icode, pos - 1) # "\n"
    THEN \* "Accept only includes that are at the start of a line"
         /\ ipos' = pos + 8
         /\ UNCHANGED <<icode, iendfilePos, ipaths, handledFiles, missingIncludeFlag,
                        ierrors, ilast>>
    ELSE enumClause(pos, PopEndfiles(ipaths, icode, iendfilePos, pos),
                    WithoutClause(icode, pos), getHeaderFileName(ClauseAt(icode, pos)))

\* the lines of the source file
EnumMenu ==
    {"#include \"a.h\"", "#include \"b.h\"", "#include <s.h>", "#include A",
     "x; #include \"b.h\""}

RECURSIVE EnumTexts(_)
\* the source files of at most n lines of EnumMenu
EnumTexts(n) ==
    IF n = 0 THEN {""}
    ELSE {""} \cup {line \o "\n" \o text : line \in EnumMenu, text \in EnumTexts(n - 1)}

InitEnum ==
    /\ CfgsIdle
    /\ CodeIdle
    /\ ReadIdle
    /\ CommentsIdle
    /\ IncludeWorld
    /\ ~missingIncludeFlag
    /\ ipc = "enumerate"
    /\ idefs = <<>>
    /\ istack = <<>>
    /\ inlines = 0
    /\ iresult = ""
    /\ icode \in EnumTexts(MaxEnumLines)
    /\ ipos = 0
    /\ iendfilePos = 0
    /\ ipaths = <<PathOf(SourceFile)>>
    /\ handledFiles = {}

\* code.find("#include", pos) finds a clause
EnumIncludesTurn ==
    /\ ipc = "enumerate"
    /\ Find(icode, "#include", ipos) # NPOS
    /\ enumTurn(Find(icode, "#include", ipos))
    /\ UNCHANGED <<disk, includePaths, isettings, ipc, idefs, istack, inlines, iresult>>
    /\ UNCHANGED <<gvars, cvars, evars, rvars, mvars>>

\* code.find("#include", pos) finds nothing: handleIncludes returns
EnumIncludesEnd ==
    /\ ipc = "enumerate"
    /\ Find(icode, "#include", ipos) = NPOS
    /\ ipc' = "done"
    /\ iresult' = icode
    /\ UNCHANGED <<disk, includePaths, isettings, missingIncludeFlag, ierrors, idefs, istack,
                   inlines, icode, ipos, iendfilePos, ipaths, handledFiles, ilast>>
    /\ UNCHANGED <<gvars, cvars, evars, rvars, mvars>>

NextEnum == EnumIncludesTurn \/ EnumIncludesEnd

SpecEnum == InitEnum /\ [][NextEnum]_vars

\* handleIncludes in either mode
InitHandleIncludes == InitInclude \/ InitEnum

NextHandleIncludes == NextInclude \/ NextEnum

SpecHandleIncludes == InitHandleIncludes /\ [][NextHandleIncludes]_vars

-----------------------------------------------------------------------------
(* Claims about handleIncludes(code, filePath, includePaths) *)

RECURSIVE SplicedFiles(_, _)
\* the paths of the "#file" lines of a text from pos on, in lower case
SplicedFiles(text, pos) ==
    LET p == Find(text, "#file \"", pos)
        e == FindFirstOf(text, {"\"", "\n"}, p + 7)
    IN  IF p = NPOS THEN <<>>
        ELSE <<ToLower(Substr(text, p + 7, e - p - 7))>> \o SplicedFiles(text, p + 7)

RECURSIVE Bracketed(_, _, _)
\* every "#file" line of a text from pos on has its "#endfile" line and the
\* other way round
Bracketed(text, pos, open) ==
    LET e == Find(text, "\n", pos)
        line == IF e = NPOS THEN SubstrFrom(text, pos) ELSE Substr(text, pos, e - pos)
    IN  IF pos >= Len(text) THEN open = 0
        ELSE IF line = "#endfile"
        THEN open > 0 /\ Bracketed(text, IF e = NPOS THEN Len(text) ELSE e + 1, open - 1)
        ELSE Bracketed(text, IF e = NPOS THEN Len(text) ELSE e + 1,
                       IF Compare(line, 7, "#file \"") THEN open + 1 ELSE open)

\* C17: in the text handleIncludes works on no two "#file" lines name the
\* same path, letter case put aside; every "#file" line has its "#endfile"
\* line; a clause whose header was opened is spliced, if the header has text,
\* exactly when no "#file" line named its path before; and when
\* handleIncludes returns no line starts with "#include"
C17_SplicedOnce ==
    LET files == SplicedFiles(icode, 0)
    IN  /\ \A i, j \in 1..Len(files) : files[i] = files[j] => i = j
        /\ Bracketed(icode, 0, 0)
        /\ (ilast.line # "" /\ ilast.opened /\ ilast.spliced)
               => Occurrences(icode, Spliced(ilast.resolved, readHeader(ilast.resolved)), 0) = 1
        /\ ipc = "done" => ~Compare(icode, 8, "#include") /\ Find(icode, "\n#include", 0) = NPOS

\* handleIncludes has returned; the clause handled last named a.h, which was
\* opened and not spliced, and the text has one "#file" line for a.h
C17_Witness ==
    /\ ipc = "done"
    /\ ilast.opened
    /\ ~ilast.spliced
    /\ ilast.resolved = "a.h"
    /\ Occurrences(icode, "#file \"a.h\"", 0) = 1

-----------------------------------------------------------------------------
(* handleIncludes(code, filePath, includePaths, defs, includes) with names
   that the user has undefined *)

\* the lines of a source file with blocks for the undefined name A
UndefMenu == {"#ifdef A", "#if 1", "#else", "#endif", "x;"}

InitUndef ==
    /\ InitInclude
    /\ isettings.userUndefs = {"A"}

\* std::getline delivers a line of the source file; icode is the text read
HandleIncludesUndefLine ==
    /\ ipc = "run"
    /\ Len(istack) = 1
    /\ inlines < MaxUndefLines
    /\ inlines' = inlines + 1
    /\ \E line \in UndefMenu :
           /\ handleIncludesTurn(Last(istack), line, <<>>)
           /\ icode' = icode \o line \o "\n"
    /\ UNCHANGED <<disk, includePaths, isettings, ipc, iresult,
                   ipos, iendfilePos, ipaths, handledFiles>>
    /\ UNCHANGED <<gvars, cvars, evars, rvars, mvars>>

NextUndef == HandleIncludesUndefLine \/ HandleIncludesEof

SpecUndef == InitUndef /\ [][NextUndef]_vars

-----------------------------------------------------------------------------
(* Claims about the conditionals of handleIncludes *)

\* C23, as stated: in every call of handleIncludes indentmatch is at most
\* indent after every line (both are unsigned int)
C23_IndentmatchAtMostIndent ==
    \A i \in 1..Len(istack) : ~UGreater(istack[i].indentmatch, istack[i].indent)

RECURSIVE StillOpen(_, _, _, _)
\* the block whose first line is before line k is open up to line i: none of
\* the lines k..i is the #else, #elif or #endif that matches it
StillOpen(lines, k, i, depth) ==
    IF k > i THEN TRUE
    ELSE IF \/ Compare(lines[k], 4, "#if ")
            \/ Compare(lines[k], 7, "#ifdef ")
            \/ Compare(lines[k], 8, "#ifndef ")
    THEN StillOpen(lines, k + 1, i, depth + 1)
    ELSE IF Compare(lines[k], 6, "#endif")
    THEN depth > 0 /\ StillOpen(lines, k + 1, i, depth - 1)
    ELSE IF Compare(lines[k], 5, "#else") \/ Compare(lines[k], 6, "#elif ")
    THEN depth > 0 /\ StillOpen(lines, k + 1, i, depth)
    ELSE StillOpen(lines, k + 1, i, depth)

\* C30, as stated: a line between an "#ifdef A" line, A being undefined by
\* the user and not defined, and the #else, #elif or #endif that matches it
\* is not copied to the output, whatever conditionals lie in between
C30_UndefBlockNotCopied ==
    (ipaths = <<>> /\ Len(istack) = 1 /\ isettings.userUndefs = {"A"} /\ "A" \notin DOMAIN idefs)
        => \A j, i \in 1..Len(Lines(icode)) :
               (j < i /\ Lines(icode)[j] = "#ifdef A" /\ StillOpen(Lines(icode), j + 1, i, 0))
                   => Lines(Last(istack).ostr)[i] = ""

-----------------------------------------------------------------------------
(* getcode on #elif lines with a negated condition *)

\* conditionals with "#elif !X" and "#elif !defined(X)" lines
ElifMenu ==
    {"#ifdef A", "#if B", "#elif !A", "#elif !defined(A)", "#elif !B", "#endif",
     "#define A", "x;"}

\* getline delivers a line of ElifMenu
GetcodeElifLine ==
    /\ cpc = "loop"
    /\ nlines < MaxElifLines
    /\ \E line \in ElifMenu : getcodeLine(line)
    /\ UNCHANGED <<gvars, rvars, mvars, ivars>>

NextElif == GetcodeElifLine \/ GetcodeEof \/ ExpandMacrosChunk \/ ExpandMacrosReturn

SpecElif == InitCode /\ [][NextElif]_vars

\* the name X of an "#elif !X" or "#elif !defined(X)" line
ElifName(line) ==
    IF Compare(line, 15, "#elif !defined(") THEN Substr(line, 15, Len(line) - 16)
    ELSE SubstrFrom(line, 7)

\* C26, as stated: an "#elif !X" or "#elif !defined(X)" line of a conditional
\* no branch of which was selected before selects its branch exactly when X
\* is not a key of the macro map
C26_ElifNotSelectsWhenUndefined ==
    (/\ cpc = "loop"
     /\ Compare(last.line, 7, "#elif !")
     /\ last.depth > 0
     /\ Last(chains).selected = (IF Last(matching_ifdef) THEN 1 ELSE 0))
        => (Last(matching_ifdef) <=> ElifName(last.line) \notin DOMAIN last.map)

-----------------------------------------------------------------------------
(* getcfgs on a text with headers that handleIncludes has spliced *)

\* history: the conditional that a line opens, with the depth of #file at
\* which it was opened
GuardOpened(line) ==
    IF Compare(line, 7, "#ifdef ")
    THEN <<[id |-> SubstrFrom(line, 7), inElse |-> FALSE, level |-> filelevel]>>
    ELSE IF Compare(line, 8, "#ifndef ")
    THEN <<[id |-> SubstrFrom(line, 8), inElse |-> FALSE, level |-> filelevel]>>
    ELSE <<>>

\* the lines that continue a well-nested text: conditionals, and headers
\* between #file and #endfile that begin with an include guard and close
\* the conditionals they open
GuardMenu ==
    {"#ifdef A", "#ifdef B", "#ifndef G", "#define G", "#file \"h\""}
    \cup (IF gopen # <<>> /\ Last(gopen).level = filelevel THEN {"#endif"} ELSE {})
    \cup (IF filelevel > 0 /\ (gopen = <<>> \/ Last(gopen).level < filelevel)
          THEN {"#endfile"} ELSE {})

\* getline delivers a line of a well-nested text with spliced headers
GetcfgsGuardLine ==
    /\ gpc = "loop"
    /\ glinenr < MaxGuardLines
    /\ \E line \in GuardMenu :
           /\ getcfgsTurn(line)
           /\ gopen' = IF line = "#endif" THEN Front(gopen) ELSE gopen \o GuardOpened(line)
    /\ UNCHANGED <<gexpect, gelse>>
    /\ UNCHANGED <<cvars, evars, rvars, mvars, ivars>>

NextGuard == GetcfgsGuardLine \/ GetcfgsReturn

SpecGuard == InitCfgs /\ [][NextGuard]_vars

\* C27, as stated: after every line deflist holds as many "!" as ndeflist has
\* entries
C27_PlaceholdersMatchNdeflist ==
    gpc = "loop" => Cardinality({i \in 1..Len(deflist) : deflist[i] = "!"}) = Len(ndeflist)

\* C28, as stated: after every line of a well-nested text deflist has one
\* entry for every conditional that is open, and the configuration A;B is
\* recorded when "#ifdef B" is read while "#ifdef A" is open
C28_DeflistCountsOpenBlocks ==
    gpc = "loop" =>
        /\ Len(deflist) = Len(gopen)
        /\ (/\ gopen # <<>>
            /\ Last(gopen).id = "B"
            /\ \E i \in 1..(Len(gopen) - 1) : gopen[i].id = "A")
               => "A;B" \in Range(gret)

-----------------------------------------------------------------------------
(* expandMacros: the limits of a statement with several macro calls *)

\* a macro without parameters, a macro whose expansion is empty, and
\* statements that call them one after the other
LimitMenu ==
    {"#define M() m", "#define N(x)", "#undef N", "M()N(aaaaaaaa) M();", "M() M();",
     "N(a) M();"}

\* getline delivers a line of LimitMenu
GetcodeLimitLine ==
    /\ cpc = "loop"
    /\ nlines < MaxLimitLines
    /\ \E line \in LimitMenu : getcodeLine(line)
    /\ UNCHANGED <<gvars, rvars, mvars, ivars>>

NextLimit == GetcodeLimitLine \/ GetcodeEof \/ ExpandMacrosChunk \/ ExpandMacrosReturn

SpecLimit == InitMacro /\ [][NextLimit]_vars

\* C29, as stated: a limit is at most the length of the line when it is
\* consulted, and a statement leaves no call of M() unexpanded when the
\* expansion of M names no macro
C29_LimitWithinLine ==
    elast # NoText =>
        /\ ~elast.wrapped
        /\ ("M" \in DOMAIN elast.macros /\ elast.err = "") => Find(elast.out, "M(", 0) = NPOS

-----------------------------------------------------------------------------
(* Preprocessor::removeComments *)

\* std::isspace and std::iscntrl for the characters of the model
isspace(ch) == ch \in {" ", "\t", "\n", "\r", "\f"}
iscntrl(ch) == ch \in {"\t", "\n", "\r", "\f"}

\* std::string(n, '\n')
Newlines(n) == JoinSeq([k \in 1..n |-> "\n"], "")

\* str.compare(i, n, text) == 0
CompareAt(str, i, n, text) == Substr(str, i, n) = text

RECURSIVE SkipSpace(_, _)
\* operator>> skips the white space from pos on
SkipSpace(s, pos) == IF pos < Len(s) /\ isspace(At(s, pos)) THEN SkipSpace(s, pos + 1) ELSE pos

RECURSIVE StreamWordEnd(_, _)
\* operator>> reads up to the next white space
StreamWordEnd(s, pos) == IF pos < Len(s) /\ ~isspace(At(s, pos)) THEN StreamWordEnd(s, pos + 1) ELSE pos

\* "iss >> word": the word, and the position after it
ReadWord(s, pos) ==
    [word |-> Substr(s, SkipSpace(s, pos), StreamWordEnd(s, SkipSpace(s, pos)) - SkipSpace(s, pos)),
     pos |-> StreamWordEnd(s, SkipSpace(s, pos))]

\* the IDs that "cppcheck-suppress ID" in comment adds to suppressionIDs;
\* "if (iss)" fails when no second word was read
SuppressionsOf(comment) ==
    IF ReadWord(comment, 0).word = "cppcheck-suppress"
       /\ ReadWord(comment, ReadWord(comment, 0).pos).word # ""
    THEN <<ReadWord(comment, ReadWord(comment, 0).pos).word>>
    ELSE <<>>

\* "abcdefghijklmnopqrstuvwxyz"
Lowers == {SubSeq(LowerCase, k, k) : k \in 1..26}

RECURSIVE FindFirstNotOfSet(_, _, _)
\* s.find_first_not_of(chars, from)
FindFirstNotOfSet(s, chars, from) ==
    IF from >= Len(s) THEN NPOS
    ELSE IF At(s, from) \notin chars THEN from
    ELSE FindFirstNotOfSet(s, chars, from + 1)

RECURSIVE WithoutSpace(_)
\* "convert comment to lower case without whitespace": the erase loop
WithoutSpace(s) ==
    IF s = "" THEN ""
    ELSE (IF isspace(At(s, 0)) THEN "" ELSE At(s, 0)) \o WithoutSpace(SubstrFrom(s, 1))

\* static bool isFallThroughComment(std::string comment)
isFallThroughComment(comment) ==
    \/ \E key \in {"fallthr", "fallsthr", "fall-thr", "dropthr", "passthr", "nobreak"} :
           Find(ToLower(WithoutSpace(comment)), key, 0) # NPOS
    \/ ToLower(WithoutSpace(comment)) = "fall"

\* "Add any pending inline suppressions that have accumulated": the calls
\* of nomsg.addSuppression, with the position in str at which they are made
addSuppressions(s) ==
    IF s.suppressionIDs = <<>> THEN s
    ELSE [s EXCEPT !.added = IF msettings.exists
                              THEN @ \o [j \in 1..Len(s.suppressionIDs) |->
                                            [id |-> s.suppressionIDs[j], line |-> s.lineno,
                                             at |-> s.i]]
                              ELSE @,
                   !.suppressionIDs = <<>>]

\* the branch for "#error" and "#warning"
removeCommentsError(str, s) ==
    LET code2 == IF CompareAt(str, s.i, 6, "#error") THEN s.code \o "#error" ELSE s.code
        nl == Find(str, "\n", s.i)
    IN  IF nl = NPOS THEN [s EXCEPT !.code = code2, !.brk = TRUE]
        ELSE [s EXCEPT !.code = code2, !.i = nl - 1]

\* "First skip over any whitespace that may be present"
removeCommentsSpace(ch, s) ==
    LET double == ch = " " /\ s.previous = " "
        code1 == IF double THEN s.code ELSE s.code \o ch
        prev1 == IF double THEN s.previous ELSE ch
    IN  IF ch # "\n" THEN [s EXCEPT !.code = code1, !.previous = prev1]
        ELSE [s EXCEPT !.code = code1 \o Newlines(s.newlines),
                       !.previous = IF s.newlines > 0 THEN "\n" ELSE prev1,
                       !.inPreprocessorLine = IF prev1 # "\\" THEN FALSE ELSE @,
                       !.lineno = @ + 1,
                       !.newlines = 0]

\* the branch for "//"
removeCommentsLine(str, s) ==
    LET nl == Find(str, "\n", s.i)
        comment == Substr(str, s.i + 2, nl - (s.i + 2))
    IN  IF nl = NPOS THEN [s EXCEPT !.brk = TRUE]
        ELSE [s EXCEPT !.i = nl,
                       !.suppressionIDs = IF msettings.exists /\ msettings.inlineSuppressions
                                          THEN @ \o SuppressionsOf(comment) ELSE @,
                       !.fallThroughComment = @ \/ isFallThroughComment(comment),
                       !.code = @ \o "\n",
                       !.previous = "\n",
                       !.lineno = @ + 1]

RECURSIVE BlockEnd(_, _, _, _, _)
\* the while loop of the branch for "/*": i, and the newlines it has counted
BlockEnd(str, i, chPrev, ch, n) ==
    IF i < Len(str) /\ (chPrev # "*" \/ ch # "/")
    THEN BlockEnd(str, i + 1, ch, At(str, i + 1), IF At(str, i + 1) = "\n" THEN n + 1 ELSE n)
    ELSE [i |-> i, n |-> n]

\* std::string comment(str, commentStart, n), n of type size_t
CommentText(str, commentStart, n) ==
    IF n < 0 THEN SubstrFrom(str, commentStart) ELSE Substr(str, commentStart, n)

\* the branch for "/*"
removeCommentsBlock(str, s, e) ==
    [s EXCEPT !.i = e.i,
              !.newlines = @ + e.n,
              !.lineno = @ + e.n,
              !.fallThroughComment =
                  @ \/ isFallThroughComment(CommentText(str, s.i + 2, e.i - (s.i + 2) - 1)),
              !.suppressionIDs =
                  IF msettings.exists /\ msettings.inlineSuppressions
                  THEN @ \o SuppressionsOf(CommentText(str, s.i + 2, e.i - (s.i + 2) - 1))
                  ELSE @]

\* the branch for '#' after a newline
removeCommentsDirective(ch, s) ==
    addSuppressions([s EXCEPT !.code = @ \o ch, !.previous = ch, !.inPreprocessorLine = TRUE])

\* "Must be code here!": the fall through comment and the pending suppressions
removeCommentsCode(str, s) ==
    IF s.inPreprocessorLine THEN s
    ELSE IF msettings.exists /\ msettings.style /\ msettings.experimental
            /\ s.fallThroughComment
    THEN LET j == FindFirstNotOfSet(str, Lowers, s.i)
             tok == IF j = NPOS THEN SubstrFrom(str, s.i) ELSE Substr(str, s.i, j - s.i)
         IN  addSuppressions([s EXCEPT !.suppressionIDs =
                                           IF tok \in {"case", "default"}
                                           THEN Append(@, "switchCaseFallThrough") ELSE @,
                                       !.fallThroughComment = FALSE])
    ELSE addSuppressions(s)

RECURSIVE removeCommentsString(_, _, _)
\* "String or char constants..": the do loop, after the quote ch was written;
\* str[str.length()] is '\0'
removeCommentsString(str, ch, s) ==
    LET i1 == s.i + 1
        chNext == IF i1 >= Len(str) THEN NUL ELSE At(str, i1)
        chSeq == IF i1 + 1 >= Len(str) THEN NUL ELSE At(str, i1 + 1)
        s1 == IF chNext = "\\"
              THEN IF chSeq = "\n"
                   THEN [s EXCEPT !.i = i1 + 1, !.newlines = @ + 1]
                   ELSE [s EXCEPT !.i = i1 + 1, !.code = @ \o chNext \o chSeq,
                                  !.previous = chSeq]
              ELSE [s EXCEPT !.i = i1, !.code = @ \o chNext, !.previous = chNext]
    IN  IF s1.i < Len(str) /\ chNext # ch /\ chNext # "\n"
        THEN removeCommentsString(str, ch, s1)
        ELSE s1

RECURSIVE RawDelim(_, _, _)
\* the for loop that reads the delimiter of a raw string from i2 on
RawDelim(str, i2, delim) ==
    IF i2 >= Len(str) THEN delim
    ELSE IF i2 > 16 \/ isspace(At(str, i2)) \/ iscntrl(At(str, i2))
            \/ At(str, i2) = ")" \/ At(str, i2) = "\\"
    THEN " "
    ELSE IF At(str, i2) = "(" THEN delim
    ELSE RawDelim(str, i2 + 1, delim \o At(str, i2))

RECURSIVE RawText(_, _, _)
\* the for loop that writes the characters p..endpos-1 of a raw string
RawText(str, p, endpos) ==
    IF p >= endpos THEN ""
    ELSE (IF At(str, p) = "\n" THEN "\\n"
          ELSE IF iscntrl(At(str, p)) \/ isspace(At(str, p)) THEN " "
          ELSE IF At(str, p) = "\\" THEN "\\"
          ELSE IF At(str, p) = "\"" \/ At(str, p) = "'" THEN "\\" \o At(str, p)
          ELSE At(str, p))
         \o RawText(str, p + 1, endpos)

\* "Rawstring.."
removeCommentsRaw(str, s, delim, endpos) ==
    IF delim # " " /\ endpos # NPOS
    THEN [s EXCEPT !.code = @ \o "\"" \o RawText(str, s.i + 3 + Len(delim), endpos) \o "\""
                            \o Newlines(Occurrences(Substr(str, s.i + 3 + Len(delim),
                                                           endpos - (s.i + 3 + Len(delim))),
                                                    "\n", 0)),
                   !.i = endpos + Len(delim) + 2]
    ELSE [s EXCEPT !.code = @ \o "R", !.previous = "R"]

\* the last branch: code, string and character constants, raw strings
removeCommentsOther(str, ch, s) ==
    IF ch = "\"" \/ ch = "'"
    THEN removeCommentsString(str, ch, [s EXCEPT !.code = @ \o ch])
    ELSE IF CompareAt(str, s.i, 2, "R\"")
    THEN removeCommentsRaw(str, s, RawDelim(str, s.i + 2, ""),
                           Find(str, ")" \o RawDelim(str, s.i + 2, "") \o "\"", s.i))
    ELSE [s EXCEPT !.code = @ \o ch, !.previous = ch]

\* the body of the for loop for the character ch = str[i]; no character of
\* the model has the bit 0x80 set, and no text begins with a byte order mark
removeCommentsBody(str, ch, s) ==
    IF \/ CompareAt(str, s.i, 6, "#error")
          /\ (~msettings.exists \/ msettings.userDefines = "")
       \/ CompareAt(str, s.i, 8, "#warning")
    THEN removeCommentsError(str, s)
    ELSE IF isspace(ch) THEN removeCommentsSpace(ch, s)
    ELSE IF CompareAt(str, s.i, 2, "//") THEN removeCommentsLine(str, s)
    ELSE IF CompareAt(str, s.i, 2, "/*")
    THEN removeCommentsBlock(str, s, BlockEnd(str, s.i + 1, NUL, ch, 0))
    ELSE IF ch = "#" /\ s.previous = "\n" THEN removeCommentsDirective(ch, s)
    ELSE removeCommentsOther(str, ch, removeCommentsCode(str, s))

\* the local variables of removeComments
removeCommentsLocals ==
    [i |-> mi, lineno |-> mlineno, newlines |-> mnewlines, code |-> mcode,
     previous |-> mprevious, inPreprocessorLine |-> inPreprocessorLine,
     suppressionIDs |-> suppressionIDs, fallThroughComment |-> fallThroughComment,
     added |-> madded, brk |-> FALSE]

\* the local variables after one turn of the for loop: break, or "++i"
removeCommentsAssign(s) ==
    /\ mpc' = IF s.brk THEN "done" ELSE "loop"
    /\ mi' = IF s.brk THEN s.i ELSE s.i + 1
    /\ mlineno' = s.lineno
    /\ mnewlines' = s.newlines
    /\ mcode' = s.code
    /\ mprevious' = s.previous
    /\ inPreprocessorLine' = s.inPreprocessorLine
    /\ suppressionIDs' = s.suppressionIDs
    /\ fallThroughComment' = s.fallThroughComment
    /\ madded' = s.added

\* removeComments(str, filename) is entered
removeCommentsBegin(str, settings) ==
    /\ mpc = "loop"
    /\ mstr = str
    /\ msettings = settings
    /\ mi = 0
    /\ mlineno = 1
    /\ mnewlines = 0
    /\ mcode = ""
    /\ mprevious = NUL
    /\ inPreprocessorLine = FALSE
    /\ suppressionIDs = <<>>
    /\ fallThroughComment = FALSE
    /\ madded = <<>>

\* the pieces a text is made of: comments with and without a suppression,
\* directives, string literals over two lines, raw strings, and code that
\* moves what follows away from the start of the text
CommentPieces ==
    {"// cppcheck-suppress X\n", "/* c\n */", "\"a\\\nb\";\n", "R\"(a\nb)\";\n", "x;\n",
     "#d\n", "int aaaaaaaaaaa = "}

RECURSIVE CommentTexts(_)
\* the texts of at most n pieces
CommentTexts(n) ==
    IF n = 0 THEN {""}
    ELSE CommentTexts(n - 1) \cup {t \o p : t \in CommentTexts(n - 1), p \in CommentPieces}

\* the settings removeComments runs with
CommentSettings ==
    {[exists |-> TRUE, inlineSuppressions |-> b, userDefines |-> "", style |-> FALSE,
      experimental |-> FALSE] : b \in BOOLEAN}

InitComments ==
    /\ IncludeIdle
    /\ ReadIdle
    /\ CfgsIdle
    /\ CodeIdle
    /\ \E str \in CommentTexts(MaxPieces) : \E settings \in CommentSettings :
           removeCommentsBegin(str, settings)

\* "i < str.length()" holds: one turn of the for loop
RemoveCommentsTurn ==
    /\ mpc = "loop"
    /\ mi < Len(mstr)
    /\ removeCommentsAssign(removeCommentsBody(mstr, At(mstr, mi), removeCommentsLocals))
    /\ UNCHANGED <<mstr, msettings>>
    /\ UNCHANGED <<gvars, cvars, evars, rvars, ivars>>

\* "i < str.length()" fails: "return code.str()"
RemoveCommentsReturn ==
    /\ mpc = "loop"
    /\ mi >= Len(mstr)
    /\ mpc' = "done"
    /\ UNCHANGED <<mstr, msettings, mi, mlineno, mnewlines, mcode, mprevious,
                   inPreprocessorLine, suppressionIDs, fallThroughComment, madded>>
    /\ UNCHANGED <<gvars, cvars, evars, rvars, ivars>>

NextComments == RemoveCommentsTurn \/ RemoveCommentsReturn

SpecComments == InitComments /\ [][NextComments]_vars

\* C21, as stated: a raw string literal is rewritten as one ordinary string
\* literal, followed by one newline for each newline inside it, wherever in
\* the text it stands
C21_RawStringRewritten ==
    (mpc = "done" /\ Find(mstr, "R\"(a\nb)\"", 0) # NPOS) =>
        Find(mcode, "\"a\\nb\"\n", 0) # NPOS

\* C22, as stated: every suppression is registered with the number of the
\* line of the text at which the code or the directive after its comment
\* stands
C22_SuppressionLine ==
    \A k \in 1..Len(madded) :
        madded[k].line = 1 + Occurrences(Substr(mstr, 0, madded[k].at), "\n", 0)

=============================================================================
